---------------------------- MODULE Spec2Model ----------------------------
(***************************************************************************)
(* Live-reload coordination engine of watchserver / liveserver.            *)
(*                                                                         *)
(* The parts of the repository are modelled each with its own              *)
(* specification over the shared variable tuple:                           *)
(*   SpecPull     - the queue based poll handler (watchserver/server.py)   *)
(*                  fed by LiveServer.update_file (liveserver/live.py)     *)
(*   SpecDebounce - the debounce decorator (liveserver/watch.py)           *)
(*   SpecPush     - the websocket fan-out of WatchServer                   *)
(*                  (watchserver/__main__.py)                              *)
(*   SpecChannel  - the same with the script injected into the pages       *)
(*   SpecPath     - translate_path and ServerPath of liveserver/util.py,   *)
(*                  applied to inputs drawn from bounded sets              *)
(*   SpecWatch    - LiveWatchHandler (liveserver/watch.py)                 *)
(*   SpecLive     - the poll handler with the polling script of the pages  *)
(*                  and LiveServer.stop (liveserver/live.py)               *)
(*                                                                         *)
(* Strings are sequences of one-character strings, so that the path and    *)
(* pattern conversions are computed character by character as the Python   *)
(* code computes them.                                                     *)
(***************************************************************************)
EXTENDS Integers, Sequences, FiniteSets, TLC

VARIABLES
    \* ---- pull variant -------------------------------------------------
    reloads,      \* LiveServer.reloads: the Queue of pending ServerPath values
    toPut,        \* update_file: paths the callback returned, not yet put
    page,         \* per client: the path its polling script was rendered with
    pc,           \* per client: position of its request thread in do_GET
    file_path,    \* per client: do_GET's local file_path
    code,         \* per client: do_GET's local code
    last,         \* per client: the last response written (history)
    alone,        \* per client: no other poll overlapped this one (history)
    hadMatch,     \* per client: a matching entry was queued during the poll (history)
    taken,        \* per client: entries the poll removed without a match (history)
    matched,      \* per client: the poll removed an entry that matched (history)
    owed,         \* per client: what was queued for the path it polls and not yet answered (history)
    scen,         \* one enqueue onto an empty queue and the polls after it (history)
    \* ---- debouncer ----------------------------------------------------
    caller,       \* debounce: the dict key -> Timer (0: no entry)
    timers,       \* every Timer created so far, in creation order
    dpc,          \* position of the thread that runs debounced()
    dcur,         \* the key and arguments of the invocation in progress
    invoked,      \* the calls of the underlying function, in order (history)
    now,          \* the clock, in units of the debounce delay
    \* ---- push variant -------------------------------------------------
    listeners,    \* RefreshEventHandler.listeners
    conn,         \* per websocket: state of its connection
    hpc,          \* per websocket: position of its ws_refresh handler
    inbox,        \* per websocket: messages that reached the client (history)
    bpc,          \* position of the thread that runs update()/moved()
    bidx,         \* index of the for loop over self.listeners
    bmsg,         \* the message being broadcast
    btargets,     \* listeners open and registered when the broadcast began (history)
    battempt,     \* listeners a send was attempted to in this broadcast (history)
    bfail,        \* the listener whose send raised in this broadcast, 0: none (history)
    srv,          \* position of WatchServer.run
    openAtStop,   \* listeners whose connection was open when the server stopped (history)
    \* ---- push variant: the page script and the served files ------------
    reloadPath,   \* per websocket: reloadPath of the injected script, the page's identity
    outbox,       \* per websocket: fetch messages the script sent, not yet handled
    fetchSent,    \* per websocket: the broadcasts the script answered with fetch (history)
    fs,           \* the files that exist under the served root
    \* ---- path functions applied to drawn inputs ------------------------
    pin,          \* the arguments: a root and a raw path, or a pattern and a path
    pstep,        \* which function was applied last
    pout,         \* what it returned or raised
    \* ---- watch handler ------------------------------------------------
    wlast,        \* the event whose handler ran last, and the callback it called
    wcalls,       \* the callbacks called so far, in order (history)
    \* ---- polling script and LiveServer.stop ----------------------------
    script,       \* per client: position of the polling script of its page
    sresp,        \* per client: status and responseText of the request that ended
    slog,         \* per client: number of "Detached" warnings logged
    lsrv,         \* position of LiveServer.stop
    \* ---- push variant: text messages ----------------------------------
    handled,      \* per websocket: the kind of the last text message handled (history)
    \* ---- flag-dictionary variant (liveserver/server.py) ----------------
    cache,        \* LiveServer.cache: path -> bool
    cpc,          \* per client: position of its request thread in do_GET
    cfile,        \* per client: do_GET's local file_path
    ccode,        \* per client: do_GET's local code
    cread,        \* per client: what the poll found for its path (history)
    clast,        \* per client: the last response written (history)
    ones          \* per path: polls that read the flag set since its last change (history)

pullVars == <<reloads, toPut, page, pc, file_path, code, last, alone, hadMatch,
              taken, matched, owed, scen>>
debounceVars == <<caller, timers, dpc, dcur, invoked, now>>
pushVars == <<listeners, conn, hpc, inbox, bpc, bidx, bmsg, btargets, battempt,
              bfail, srv, openAtStop>>
clientVars == <<reloadPath, outbox, fetchSent, fs>>
pathVars == <<pin, pstep, pout>>
watchVars == <<wlast, wcalls>>
liveVars == <<script, sresp, slog, lsrv>>
msgVars == <<handled>>
cacheVars == <<cache, cpc, cfile, ccode, cread, clast, ones>>
vars == <<pullVars, debounceVars, pushVars, clientVars, pathVars, watchVars, liveVars,
          msgVars, cacheVars>>

-----------------------------------------------------------------------------
(* Python str operations on sequences of characters                         *)

\* s[i:] for a 1-based i
Drop(s, n) == SubSeq(s, n + 1, Len(s))

Take(s, n) == SubSeq(s, 1, n)

\* str.startswith
StartsWith(s, p) == Len(p) <= Len(s) /\ Take(s, Len(p)) = p

\* str.endswith
EndsWith(s, p) == Len(p) <= Len(s) /\ Drop(s, Len(s) - Len(p)) = p

\* str.replace(old, new): left to right, non-overlapping (old is not empty)
RECURSIVE ReplaceAll(_, _, _)
ReplaceAll(s, old, new) ==
    IF Len(s) < Len(old) THEN s
    ELSE IF StartsWith(s, old)
         THEN new \o ReplaceAll(Drop(s, Len(old)), old, new)
         ELSE <<Head(s)>> \o ReplaceAll(Tail(s), old, new)

\* str.lstrip(chars): chars is a set of characters, not a prefix
RECURSIVE LStrip(_, _)
LStrip(s, chars) ==
    IF s # <<>> /\ Head(s) \in chars THEN LStrip(Tail(s), chars) ELSE s

\* str.rstrip(chars)
RECURSIVE RStrip(_, _)
RStrip(s, chars) ==
    IF s # <<>> /\ s[Len(s)] \in chars THEN RStrip(Take(s, Len(s) - 1), chars) ELSE s

\* str.strip(chars)
Strip(s, chars) == RStrip(LStrip(s, chars), chars)

\* the characters of a string, as str.lstrip(root) reads its argument
CharsOf(s) == {s[i] : i \in 1..Len(s)}

\* the elements of a list
Range(seq) == {seq[i] : i \in 1..Len(seq)}

\* position of the last "/" of s, 0 when there is none
LastSlash(s) ==
    LET idx == {i \in 1..Len(s) : s[i] = "/"}
    IN  IF idx = {} THEN 0 ELSE CHOOSE i \in idx : \A j \in idx : j <= i

\* str.split("/"): the list of parts
RECURSIVE SplitSlash(_)
SplitSlash(s) ==
    LET k == LastSlash(s)
    IN  IF k = 0 THEN <<s>>
        ELSE SplitSlash(Take(s, k - 1)) \o <<Drop(s, k)>>

\* "/".join(parts)
RECURSIVE JoinSlash(_)
JoinSlash(parts) ==
    IF parts = <<>> THEN <<>>
    ELSE IF Len(parts) = 1 THEN parts[1]
    ELSE parts[1] \o <<"/">> \o JoinSlash(Tail(parts))

-----------------------------------------------------------------------------
(* liveserver/util.py: ServerPath, translate_path, default                  *)

\* The files of the served tree, relative to the working directory: what
\* os.path.isfile answers true for.
Files == { <<"a", "/", "x">>, <<"b", "/", "x">>, <<"s", ".", "j", "s">> }

\* ServerPath.__init__: join the non-empty parts with "/", turn "\" into "/",
\* collapse "//" once, and drop every "./" of a path longer than 2
ServerPath(parts) ==
    LET flat   == SelectSeq(parts, LAMBDA p : p # <<>>)
        joined == JoinSlash(flat)
        fwd    == ReplaceAll(joined, <<"\\">>, <<"/">>)
        single == ReplaceAll(fwd, <<"/", "/">>, <<"/">>)
    IN  IF Len(single) > 2 THEN ReplaceAll(single, <<".", "/">>, <<>>) ELSE single

\* ServerPath.parents: path.split("/")[:-1]
parents(path) ==
    LET parts == SplitSlash(path) IN Take(parts, Len(parts) - 1)

\* ServerPath.parent: the path up to its last "/"
parent(path) ==
    LET k == LastSlash(path)
    IN  IF k = 0 THEN ServerPath(<< <<>> >>)
        ELSE IF Take(path, k - 1) # <<>>
             THEN ServerPath(<< Take(path, k - 1), <<"/">> >>)
             ELSE ServerPath(<< Take(path, k - 1) >>)

\* ServerPath.normpath
normpath(path) == ReplaceAll(Strip(path, {"/"}), <<"/", "/">>, <<"/">>)

\* ServerPath.isfile
isfile(path) == path \in Files

\* ServerPath.posix
posix(path) == IF path # <<>> THEN path ELSE <<".">>

\* translate_path(root, src)
translate_path(root, src) ==
    LET path == LStrip(LStrip(ServerPath(<<src>>), {"/"}), CharsOf(root))
    IN  IF Len(parents(path)) = 0 THEN <<"/">>
        ELSE IF isfile(path)
             THEN posix(normpath(parent(path))) \o <<"/">>
             ELSE posix(normpath(path)) \o <<"/">>

\* default(root, src): the paths LiveCallback returns for a changed file
default(root, src) ==
    IF EndsWith(src, <<".", "c", "s", "s">>) \/ EndsWith(src, <<".", "j", "s">>)
    THEN << translate_path(root, src), <<"*", "*">> >>
    ELSE << translate_path(root, src) >>

\* one part of ServerPath.regex: "**" becomes ".*", each "*" of another part
\* becomes "[^/]*".  A regular expression is a sequence of atoms: ".*",
\* "[^/]*", "." (any character) or a literal character.
RegexPart(part) ==
    IF part = <<"*", "*">> THEN <<".*">>
    ELSE ReplaceAll(part, <<"*">>, <<"[^/]*">>)

RECURSIVE RegexParts(_)
RegexParts(parts) ==
    IF parts = <<>> THEN <<>>
    ELSE <<RegexPart(Head(parts))>> \o RegexParts(Tail(parts))

\* ServerPath.regex
regex(path) == JoinSlash(RegexParts(SplitSlash(path)))

\* re.match(re, s): the expression matches a prefix of s; with atend, as in
\* "^...$", it matches the whole of s
RECURSIVE ReMatch(_, _, _)
ReMatch(re, s, atend) ==
    IF re = <<>> THEN (~atend \/ s = <<>>)
    ELSE IF Head(re) = ".*"
         THEN \E k \in 0..Len(s) : ReMatch(Tail(re), Drop(s, k), atend)
    ELSE IF Head(re) = "[^/]*"
         THEN \E k \in 0..Len(s) :
                  /\ \A i \in 1..k : s[i] # "/"
                  /\ ReMatch(Tail(re), Drop(s, k), atend)
    ELSE /\ s # <<>>
         /\ (Head(re) = "." \/ Head(re) = Head(s))
         /\ ReMatch(Tail(re), Tail(s), atend)

\* ServerPath.relative_to(rel_path) of the path self: each leading ".." of
\* rel_path drops one of self's parents; IndexError when there is none left
relative_to(self, rel_path) ==
    LET ps  == parents(self)
        rel == SplitSlash(ReplaceAll(ReplaceAll(rel_path, <<"\\">>, <<"/">>),
                                     <<"/", "/">>, <<"/">>))
        ups == {i \in 0..Len(rel) : \A j \in 1..i : rel[j] = <<".", ".">>}
        k   == CHOOSE i \in ups : \A j \in ups : j <= i
    IN  IF k > Len(ps) THEN [kind |-> "IndexError", val |-> <<>>]
        ELSE [kind |-> "value",
              val |-> ServerPath(Take(ps, Len(ps) - k) \o Drop(rel, k))]

-----------------------------------------------------------------------------
(* The path functions applied to drawn inputs                               *)

\* Longest raw path drawn
MaxPathLen == 6

\* Most segments of a pattern or of a matched path
MaxSegs == 3

\* the characters raw paths are made of
PathChars == {"a", "x", ".", "/"}

RECURSIVE StringsUpTo(_, _)
StringsUpTo(chars, n) ==
    IF n = 0 THEN {<<>>}
    ELSE LET shorter == StringsUpTo(chars, n - 1)
         IN  shorter \cup {Append(t, c) : t \in shorter, c \in chars}

RawPaths == StringsUpTo(PathChars, MaxPathLen)

\* LiveServer(root=...): the served roots
Roots == {<<>>, <<"a">>}

\* lists of one to n of the given segments
RECURSIVE SegLists(_, _)
SegLists(segs, n) ==
    IF n = 1 THEN {<<g>> : g \in segs}
    ELSE LET shorter == SegLists(segs, n - 1)
         IN  shorter \cup {Append(t, g) : t \in shorter, g \in segs}

\* the patterns a callback returns, and the paths they are matched against
Patterns == {JoinSlash(l) : l \in SegLists({<<"*">>, <<"*", "*">>, <<"a">>}, MaxSegs)}
Subjects == {JoinSlash(l) : l \in SegLists({<<"a">>, <<"x">>}, MaxSegs)}

NoPath == [kind |-> "none", val |-> <<>>]

InitPathVars ==
    /\ pin = [root |-> <<>>, raw |-> <<>>, pat |-> <<>>, subj |-> <<>>]
    /\ pstep = "off"
    /\ pout = NoPath

\* the arguments are drawn
InitPathInputs ==
    /\ \/ \E r \in Roots, p \in RawPaths :
             pin = [root |-> r, raw |-> p, pat |-> <<>>, subj |-> <<>>]
       \/ \E g \in Patterns, t \in Subjects :
             pin = [root |-> <<>>, raw |-> <<>>, pat |-> g, subj |-> t]
    /\ pstep = "input"
    /\ pout = NoPath

\* translate_path(root, raw): the function has no raise statement
apply_translate_path ==
    /\ pstep = "input"
    /\ pin.pat = <<>>
    /\ pout' = [kind |-> "value", val |-> translate_path(pin.root, pin.raw)]
    /\ pstep' = "translated"
    /\ UNCHANGED pin

\* translate_path(root, .) applied to the canonical path it returned
apply_translate_path_again ==
    /\ pstep = "translated"
    /\ pout' = [kind |-> "value", val |-> translate_path(pin.root, pout.val)]
    /\ pstep' = "translated_again"
    /\ UNCHANGED pin

\* ServerPath(root).relative_to(raw)
apply_relative_to ==
    /\ pstep = "input"
    /\ pin.pat = <<>>
    /\ pout' = relative_to(ServerPath(<<pin.root>>), pin.raw)
    /\ pstep' = "relative"
    /\ UNCHANGED pin

\* do_GET, line 180: match(f"^{reload.regex()}$", file_path) is not None
apply_match ==
    /\ pstep = "input"
    /\ pin.pat # <<>>
    /\ pout' = [kind |-> "bool", val |-> ReMatch(regex(pin.pat), pin.subj, TRUE)]
    /\ pstep' = "matched"
    /\ UNCHANGED pin

-----------------------------------------------------------------------------
(* Pull variant: LiveServer.update_file (liveserver/live.py) and            *)
(* ServiceHandler.do_GET (watchserver/server.py)                            *)

\* Browser tabs that poll
Clients == {1, 2}

\* Entries the model lets the queue hold at once (the Queue is unbounded)
MaxQueue == 2

\* LiveServer.__init__: root: str = ""
root == <<>>

\* URLs of the pages the tabs show
Urls == { <<"/", "a", "/">>, <<"/">> }

\* Files the watcher reports as changed
SrcPaths == { <<"a", "/", "x">>, <<"s", ".", "j", "s">> }

\* ServiceHandler.lr_script: the path the polling script of a page is
\* rendered with, after do_GET rewrote self.path
lr_script(url) == translate_path(root, posix(ServerPath(<<root, url>>)))

\* do_GET: match(f"^{reload.regex()}$", file_path) is not None
reload_matches(reload, fp) == ReMatch(regex(reload), fp, TRUE)

\* NextCode with the result of the match ignored
NextCodeNever(c, reload, fp) == c

\* NextCode with code overwritten by the result of every match
NextCodeOverwrite(c, reload, fp) == IF reload_matches(reload, fp) THEN 1 ELSE 0

\* do_GET: the value of code after one pass of the drain loop
NextCode(c, reload, fp) == IF reload_matches(reload, fp) THEN 1 ELSE c

NoScen == [phase |-> "off", P |-> <<>>]

NoResponse == [status |-> 0, body |-> 0]

InitPullVars ==
    /\ reloads = <<>>
    /\ toPut = <<>>
    /\ page \in [Clients -> {lr_script(u) : u \in Urls}]
    /\ pc = [c \in Clients |-> "idle"]
    /\ file_path = [c \in Clients |-> <<>>]
    /\ code = [c \in Clients |-> 0]
    /\ last = [c \in Clients |-> NoResponse]
    /\ alone = [c \in Clients |-> FALSE]
    /\ hadMatch = [c \in Clients |-> FALSE]
    /\ taken = [c \in Clients |-> {}]
    /\ matched = [c \in Clients |-> FALSE]
    /\ owed = [c \in Clients |-> "no"]
    /\ scen = NoScen

\* update_file, line 128: paths = clbk(root, src), with the default callback
update_file(src) ==
    /\ toPut = <<>>
    /\ Len(reloads) + Len(default(root, src)) <= MaxQueue
    /\ toPut' = default(root, src)
    /\ scen' = [phase |-> IF Len(default(root, src)) = 1 THEN "single" ELSE "off",
                P |-> <<>>]
    /\ UNCHANGED <<reloads, page, pc, file_path, code, last, alone, hadMatch, taken,
                   matched, owed>>

\* update_file, lines 129-130: self.reloads.put(ServerPath(path)), one path
\* of the list per step
reloads_put ==
    /\ toPut # <<>>
    /\ LET e == ServerPath(<<Head(toPut)>>)
       IN  /\ reloads' = Append(reloads, e)
           /\ hadMatch' = [c \in Clients |->
                  hadMatch[c] \/ (pc[c] # "idle" /\ reload_matches(e, file_path[c]))]
           /\ owed' = [c \in Clients |->
                  IF e = <<"*", "*">> THEN "wild"
                  ELSE IF owed[c] = "no" /\ reload_matches(e, translate_path(root, page[c]))
                       THEN "path"
                       ELSE owed[c]]
           /\ scen' = IF /\ scen.phase = "single"
                         /\ reloads = <<>>
                         /\ \A c \in Clients : pc[c] = "idle"
                      THEN [phase |-> "enqueued", P |-> e]
                      ELSE NoScen
    /\ toPut' = Tail(toPut)
    /\ UNCHANGED <<page, pc, file_path, code, last, alone, taken, matched>>

\* do_GET, lines 170-176: the request is a poll; status 200 and the headers
\* are sent, code = 0
do_GET_begin(c) ==
    /\ pc[c] = "idle"
    /\ LET fp == translate_path(root, page[c])
       IN  /\ file_path' = [file_path EXCEPT ![c] = fp]
           /\ hadMatch' = [hadMatch EXCEPT ![c] =
                  \E i \in 1..Len(reloads) : reload_matches(reloads[i], fp)]
    /\ code' = [code EXCEPT ![c] = 0]
    /\ pc' = [pc EXCEPT ![c] = "loop"]
    /\ alone' = [d \in Clients |->
           IF d = c THEN \A o \in Clients \ {c} : pc[o] = "idle" ELSE FALSE]
    /\ taken' = [taken EXCEPT ![c] = {}]
    /\ matched' = [matched EXCEPT ![c] = FALSE]
    /\ UNCHANGED <<reloads, toPut, page, last, owed, scen>>

\* The polls that follow one enqueue onto an empty queue, as long as they do
\* not overlap and are all for the enqueued path: "first" after the first
\* answer, "second" after the second, with the bodies answered.
ScenAfter(c) ==
    IF scen.phase \notin {"enqueued", "first"} THEN scen
    ELSE IF ~alone[c] \/ file_path[c] # scen.P THEN NoScen
    ELSE IF scen.phase = "enqueued"
         THEN [phase |-> "first", P |-> scen.P, b1 |-> code[c]]
         ELSE [phase |-> "second", P |-> scen.P, b1 |-> scen.b1, b2 |-> code[c]]

\* do_GET, line 185: self.wfile.write(bytes(f"{code}", "utf-8")); the request
\* thread ends and its locals are gone
Respond(c) ==
    /\ last' = [last EXCEPT ![c] = [status |-> 200, body |-> code[c]]]
    /\ pc' = [pc EXCEPT ![c] = "idle"]
    /\ code' = [code EXCEPT ![c] = 0]
    /\ file_path' = [file_path EXCEPT ![c] = <<>>]
    /\ alone' = [alone EXCEPT ![c] = FALSE]
    /\ hadMatch' = [hadMatch EXCEPT ![c] = FALSE]
    /\ taken' = [taken EXCEPT ![c] = {}]
    /\ matched' = [matched EXCEPT ![c] = FALSE]
    /\ owed' = [d \in Clients |->
           IF /\ code[c] = 1
              /\ \/ d = c
                 \/ owed[d] = "path" /\ translate_path(root, page[d]) = file_path[c]
           THEN "no"
           ELSE owed[d]]
    /\ scen' = ScenAfter(c)

\* do_GET with a loop that ends at the first entry that matched
do_GET_qsize_break(c) ==
    /\ pc[c] = "loop"
    /\ IF Len(reloads) # 0 /\ code[c] = 0
       THEN /\ pc' = [pc EXCEPT ![c] = "get"]
            /\ UNCHANGED <<last, alone, hadMatch, taken, matched, owed, scen,
                           file_path, code>>
       ELSE Respond(c)
    /\ UNCHANGED <<reloads, toPut, page>>

\* do_GET, line 178: while self.server.reloads.qsize() != 0; the loop ends
\* and the response body is written when the queue is empty
do_GET_qsize(c) ==
    /\ pc[c] = "loop"
    /\ IF Len(reloads) # 0
       THEN /\ pc' = [pc EXCEPT ![c] = "get"]
            /\ UNCHANGED <<last, alone, hadMatch, taken, matched, owed, scen,
                           file_path, code>>
       ELSE Respond(c)
    /\ UNCHANGED <<reloads, toPut, page>>

\* do_GET with an entry that does not match put back at the end of the queue
do_GET_get_requeue(c) ==
    /\ pc[c] = "get"
    /\ reloads # <<>>
    /\ reloads' = IF reload_matches(Head(reloads), file_path[c])
                  THEN Tail(reloads)
                  ELSE Append(Tail(reloads), Head(reloads))
    /\ code' = [code EXCEPT ![c] = NextCode(code[c], Head(reloads), file_path[c])]
    /\ matched' = [matched EXCEPT ![c] =
           @ \/ reload_matches(Head(reloads), file_path[c])]
    /\ pc' = [pc EXCEPT ![c] = "loop"]
    /\ UNCHANGED <<toPut, page, file_path, last, alone, hadMatch, taken, owed, scen>>

\* do_GET, lines 179-182: reload = reloads.get(timeout=5), the match, task_done()
do_GET_get(c) ==
    /\ pc[c] = "get"
    /\ reloads # <<>>
    /\ reloads' = Tail(reloads)
    /\ code' = [code EXCEPT ![c] = NextCode(code[c], Head(reloads), file_path[c])]
    /\ taken' = [taken EXCEPT ![c] =
           IF reload_matches(Head(reloads), file_path[c]) THEN @
           ELSE @ \cup {Head(reloads)}]
    /\ matched' = [matched EXCEPT ![c] =
           @ \/ reload_matches(Head(reloads), file_path[c])]
    /\ pc' = [pc EXCEPT ![c] = "loop"]
    /\ UNCHANGED <<toPut, page, file_path, last, alone, hadMatch, owed, scen>>

\* do_GET with an except clause that sets code back to 0
do_GET_timeout_zero(c) ==
    /\ pc[c] = "get"
    /\ reloads = <<>>
    /\ last' = [last EXCEPT ![c] = [status |-> 200, body |-> 0]]
    /\ pc' = [pc EXCEPT ![c] = "idle"]
    /\ code' = [code EXCEPT ![c] = 0]
    /\ file_path' = [file_path EXCEPT ![c] = <<>>]
    /\ alone' = [alone EXCEPT ![c] = FALSE]
    /\ hadMatch' = [hadMatch EXCEPT ![c] = FALSE]
    /\ taken' = [taken EXCEPT ![c] = {}]
    /\ matched' = [matched EXCEPT ![c] = FALSE]
    /\ owed' = [owed EXCEPT ![c] = "no"]
    /\ scen' = NoScen
    /\ UNCHANGED <<reloads, toPut, page>>

\* do_GET, lines 179, 183-185: another request thread emptied the queue after
\* the qsize() test; get() raises Empty after 5 seconds, the except clause
\* passes and the body is written
do_GET_timeout(c) ==
    /\ pc[c] = "get"
    /\ reloads = <<>>
    /\ Respond(c)
    /\ UNCHANGED <<reloads, toPut, page>>

-----------------------------------------------------------------------------
(* Event debouncer: debounce (liveserver/watch.py)                          *)

\* Invocations of the debounced function the model follows
MaxCalls == 3

\* Clock ticks the model follows
MaxTime == 2

\* WAIT = 0.1, the delay of @debounce(WAIT): one tick of the clock
WAIT == 1

\* str(dict(bound_args.arguments)) of the invocations: two event objects
\* with the same text give the same key
Reprs == {"A", "B"}

\* debounced, lines 27-32: called_args = func.__name__ + str(dict(arguments))
called_args(args) == <<"on_modified", args.repr>>

Keys == {called_args([repr |-> r, id |-> 0]) : r \in Reprs}

\* the most recently created Timer of a key, 0 when there is none
LastTimer(k) ==
    LET ts == {t \in 1..Len(timers) : timers[t].key = k}
    IN  IF ts = {} THEN 0 ELSE CHOOSE t \in ts : \A u \in ts : u <= t

\* threading.Timer.cancel(): sets the finished event; a timer that has not
\* yet tested the event will not call its function, any other is unaffected
Cancelled(timer) ==
    IF timer.state \in {"new", "waiting"}
    THEN [timer EXCEPT !.state = "cancelled"]
    ELSE timer

InitDebounceVars ==
    /\ caller = [k \in Keys |-> 0]
    /\ timers = <<>>
    /\ dpc = "idle"
    /\ dcur = [key |-> <<>>, args |-> [repr |-> "", id |-> 0], early |-> FALSE, at |-> 0]
    /\ invoked = <<>>
    /\ now = 0

\* time passes; a timer may fire later than its delay, never earlier
Tick ==
    /\ now < MaxTime
    /\ now' = now + 1
    /\ UNCHANGED <<caller, timers, dpc, dcur, invoked>>

\* debounced with lines 45-49 left out: the timer the table holds is not
\* cancelled
debounced_without_cancel(args) ==
    /\ dpc = "idle"
    /\ Len(timers) < MaxCalls
    /\ LET key  == called_args(args)
           prev == LastTimer(key)
       IN  dcur' = [key |-> key, args |-> args,
                    early |-> (prev = 0 \/ timers[prev].state = "waiting"),
                    at |-> now]
    /\ dpc' = "assign"
    /\ UNCHANGED <<caller, timers, invoked, now>>

\* debounced with the cancel of lines 45-49 applied to every timer of the
\* table, whatever its key
debounced_cancel_all(args) ==
    /\ dpc = "idle"
    /\ Len(timers) < MaxCalls
    /\ LET key  == called_args(args)
           prev == LastTimer(key)
       IN  dcur' = [key |-> key, args |-> args,
                    early |-> (prev = 0 \/ timers[prev].state = "waiting"),
                    at |-> now]
    /\ timers' = [t \in 1..Len(timers) |->
           IF \E k \in Keys : caller[k] = t THEN Cancelled(timers[t]) ELSE timers[t]]
    /\ dpc' = "assign"
    /\ UNCHANGED <<caller, invoked, now>>

\* debounced, lines 24-49: the key is computed and the timer the table holds
\* for it, if any, is cancelled.  early records whether the previous
\* invocation of the key, if any, had a timer that had not expired yet.
debounced_cancel(args) ==
    /\ dpc = "idle"
    /\ Len(timers) < MaxCalls
    /\ LET key  == called_args(args)
           prev == LastTimer(key)
       IN  /\ dcur' = [key |-> key, args |-> args,
                       early |-> (prev = 0 \/ timers[prev].state = "waiting"),
                       at |-> now]
           /\ timers' = IF caller[key] # 0
                        THEN [timers EXCEPT ![caller[key]] = Cancelled(@)]
                        ELSE timers
    /\ dpc' = "assign"
    /\ UNCHANGED <<caller, invoked, now>>

\* debounced, line 51: caller[called_args] = Timer(wait, call_it, [called_args])
debounced_assign ==
    /\ dpc = "assign"
    /\ timers' = Append(timers, [key |-> dcur.key, args |-> dcur.args,
                                 early |-> dcur.early, state |-> "new",
                                 at |-> dcur.at, started |-> 0])
    /\ caller' = [caller EXCEPT ![dcur.key] = Len(timers) + 1]
    /\ dpc' = "start"
    /\ UNCHANGED <<dcur, invoked, now>>

\* debounced, line 52: caller[called_args].start(); the lookup raises KeyError
\* when a firing timer popped the entry in between, and no timer is started
debounced_start ==
    /\ dpc = "start"
    /\ timers' = IF caller[dcur.key] # 0 /\ timers[caller[dcur.key]].state = "new"
                 THEN [timers EXCEPT ![caller[dcur.key]] =
                          [@ EXCEPT !.state = "waiting", !.started = now]]
                 ELSE timers
    /\ dpc' = "idle"
    /\ UNCHANGED <<caller, dcur, invoked, now>>

\* threading.Timer.run: wait(interval) returned and the finished event is not
\* set, so call_it is called
timer_expire(t) ==
    /\ timers[t].state = "waiting"
    /\ now >= timers[t].started + WAIT
    /\ timers' = [timers EXCEPT ![t].state = "expired"]
    /\ UNCHANGED <<caller, dpc, dcur, invoked, now>>

\* call_it with lines 37-41 left out: the entry stays in the table
call_it_without_pop(t) ==
    /\ timers[t].state = "expired"
    /\ timers' = [timers EXCEPT ![t].state = "popped"]
    /\ UNCHANGED <<caller, dpc, dcur, invoked, now>>

\* call_it, lines 37-41: caller.pop(key), whatever timer the entry holds
call_it_pop(t) ==
    /\ timers[t].state = "expired"
    /\ caller' = [caller EXCEPT ![timers[t].key] = 0]
    /\ timers' = [timers EXCEPT ![t].state = "popped"]
    /\ UNCHANGED <<dpc, dcur, invoked, now>>

\* call_it, line 43: func(*args, **kwargs) with the arguments of the
\* invocation that created the timer.  func returns, or raises: the
\* exception leaves call_it and ends the timer's thread.
call_it_func(t) ==
    /\ timers[t].state = "popped"
    /\ \E raised \in BOOLEAN :
          /\ invoked' = Append(invoked, [timer |-> t, key |-> timers[t].key,
                                         args |-> timers[t].args, raised |-> raised])
          /\ timers' = [timers EXCEPT ![t].state = IF raised THEN "failed" ELSE "done"]
    /\ UNCHANGED <<caller, dpc, dcur, now>>

-----------------------------------------------------------------------------
(* Push variant: RefreshEventHandler and WatchServer                        *)
(* (watchserver/__main__.py)                                                *)

\* Websocket connections the model follows
Sockets == {1, 2}

\* Broadcasts the model follows
MaxBroadcasts == 2

\* WatchServer.__init__: root: str = "."
wsRoot == <<".">>

\* Paths the watcher reports: "./a.html" and "./b.html"
HtmlPaths == { <<".", "/", "a", ".", "h", "t", "m", "l">>,
               <<".", "/", "b", ".", "h", "t", "m", "l">> }

\* Text messages a client sends
MsgKinds == {"open", "close", "badjson"}

\* update, line 165, for the handler of root rt:
\* file.replace("\\", "/").lstrip(self.root.rstrip("/")).lstrip("/")
update_path(rt, file) ==
    LStrip(LStrip(ReplaceAll(file, <<"\\">>, <<"/">>),
                  CharsOf(RStrip(ReplaceAll(rt, <<"\\">>, <<"/">>), {"/"}))),
           {"/"})

\* update, line 165, with the default root
UpdatePath(file) == update_path(wsRoot, file)

NoMsg == [type |-> "none", message |-> <<>>, dest |-> <<>>, n |-> 0]

Connected == [type |-> "connected", message |-> <<>>, dest |-> <<>>, n |-> 0]

Closed == [type |-> "closed", message |-> <<>>, dest |-> <<>>, n |-> 0]

\* list.remove(x): the first occurrence is removed
ListRemove(seq, x) ==
    LET idx == {i \in 1..Len(seq) : seq[i] = x}
    IN  IF idx = {} THEN seq
        ELSE LET k == CHOOSE i \in idx : \A j \in idx : i <= j
             IN  Take(seq, k - 1) \o Drop(seq, k)

\* the client completed the open handshake: the server answered "connected"
Identified(l) == Connected \in inbox[l]

InitPushVars ==
    /\ listeners = <<>>
    /\ conn = [l \in Sockets |-> "none"]
    /\ hpc = [l \in Sockets |-> "none"]
    /\ inbox = [l \in Sockets |-> {}]
    /\ bpc = "idle"
    /\ bidx = 0
    /\ bmsg = NoMsg
    /\ btargets = {}
    /\ battempt = {}
    /\ bfail = 0
    /\ srv = "running"
    /\ openAtStop = {}

\* ws_refresh, lines 335-338: the websocket is prepared and appended
ws_connect(l) ==
    /\ srv = "running"
    /\ conn[l] = "none"
    /\ conn' = [conn EXCEPT ![l] = "open"]
    /\ hpc' = [hpc EXCEPT ![l] = "loop"]
    /\ listeners' = Append(listeners, l)
    /\ UNCHANGED <<inbox, bpc, bidx, bmsg, btargets, battempt, bfail, srv, openAtStop>>

\* ws_refresh, lines 348-355: the reply to a message without a type
ErrorMsg == [type |-> "error", message |-> <<>>, dest |-> <<>>, n |-> 0]

\* ws_refresh, lines 340-363: one text message is handled.  loads() raises
\* on text that is not JSON: the exception leaves ws_refresh, the server
\* drops the connection, and line 370 is never reached.  "notype" is a JSON
\* object without a type: the error reply is sent with True as the second
\* positional argument of send_json, its compress argument, and the library
\* decides whether such a frame is sent or the call raises.  "nonobject" is
\* JSON that is not an object (a list, a number): data.get raises.
ws_text(l, kind) ==
    /\ srv = "running"
    /\ hpc[l] = "loop"
    /\ conn[l] = "open"
    /\ CASE kind = "open" ->
              /\ inbox' = [inbox EXCEPT ![l] = @ \cup {Connected}]
              /\ UNCHANGED <<conn, hpc>>
         [] kind = "close" ->
              /\ conn' = [conn EXCEPT ![l] = "closed"]
              /\ hpc' = [hpc EXCEPT ![l] = "exited"]
              /\ UNCHANGED inbox
         [] kind \in {"badjson", "nonobject"} ->
              /\ conn' = [conn EXCEPT ![l] = "closed"]
              /\ hpc' = [hpc EXCEPT ![l] = "failed"]
              /\ UNCHANGED inbox
         [] kind = "notype" ->
              \/ /\ inbox' = [inbox EXCEPT ![l] = @ \cup {ErrorMsg}]
                 /\ UNCHANGED <<conn, hpc>>
              \/ /\ conn' = [conn EXCEPT ![l] = "closed"]
                 /\ hpc' = [hpc EXCEPT ![l] = "failed"]
                 /\ UNCHANGED inbox
         [] kind = "unknown" ->
              UNCHANGED <<conn, hpc, inbox>>
    /\ UNCHANGED <<listeners, bpc, bidx, bmsg, btargets, battempt, bfail, srv, openAtStop>>

\* The text messages a client sends: the three the server knows without the
\* fetch, text that is not JSON, JSON that is not an object, an object
\* without a type, and an object whose type is none of the known tags
TextKinds == {"open", "close", "badjson", "nonobject", "notype", "unknown"}

InitMsgVars == handled = [l \in Sockets |-> "none"]

\* ws_refresh, lines 340-363: one text message received and handled
ws_receive(l, kind) ==
    /\ ws_text(l, kind)
    /\ handled' = [handled EXCEPT ![l] = kind]

\* the client goes away: the transport is closed
client_close(l) ==
    /\ srv = "running"
    /\ conn[l] = "open"
    /\ conn' = [conn EXCEPT ![l] = "closed"]
    /\ UNCHANGED <<listeners, hpc, inbox, bpc, bidx, bmsg, btargets, battempt, bfail,
                   srv, openAtStop>>

\* ws_refresh, line 340: the async for ends once the websocket is closed
ws_loop_end(l) ==
    /\ srv = "running"
    /\ hpc[l] = "loop"
    /\ conn[l] = "closed"
    /\ hpc' = [hpc EXCEPT ![l] = "exited"]
    /\ UNCHANGED <<listeners, conn, inbox, bpc, bidx, bmsg, btargets, battempt, bfail,
                   srv, openAtStop>>

\* ws_refresh, lines 369-371: self.event_handler.listeners.remove(ws)
ws_remove(l) ==
    /\ srv = "running"
    /\ hpc[l] = "exited"
    /\ listeners' = ListRemove(listeners, l)
    /\ hpc' = [hpc EXCEPT ![l] = "done"]
    /\ UNCHANGED <<conn, inbox, bpc, bidx, bmsg, btargets, battempt, bfail, srv, openAtStop>>

\* update/moved, lines 167-168 and 190-191: the broadcast starts to iterate
\* over self.listeners
BroadcastBegin(msg) ==
    /\ bpc = "idle"
    /\ srv # "stopped"
    /\ bmsg.n < MaxBroadcasts
    /\ bmsg' = [msg EXCEPT !.n = bmsg.n + 1]
    /\ bidx' = 1
    /\ bpc' = "iter"
    /\ btargets' = {l \in Range(listeners) : conn[l] = "open" /\ Identified(l)}
    /\ battempt' = {}
    /\ bfail' = 0
    /\ UNCHANGED <<listeners, conn, hpc, inbox, srv, openAtStop>>

\* update, lines 163-168, called by the debounced on_modified
update_begin(file) ==
    BroadcastBegin([type |-> "update", message |-> UpdatePath(file),
                    dest |-> <<>>, n |-> 0])

\* moved, lines 178-191, called by the debounced on_moved
moved_begin(src, dest) ==
    BroadcastBegin([type |-> "moved", message |-> UpdatePath(src),
                    dest |-> UpdatePath(dest), n |-> 0])

\* update/moved, lines 168-176 and 191-199: one pass of the for loop, which
\* reads the list by index.  send_json on a connection that has ended
\* raises; nothing catches it, so the loop is left.
broadcast_send ==
    /\ bpc = "iter"
    /\ bidx <= Len(listeners)
    /\ LET l == listeners[bidx]
       IN  /\ battempt' = battempt \cup {l}
           /\ IF conn[l] = "open"
              THEN /\ inbox' = [inbox EXCEPT ![l] = @ \cup {bmsg}]
                   /\ bidx' = bidx + 1
                   /\ UNCHANGED <<bpc, bfail>>
              ELSE /\ bfail' = l
                   /\ bpc' = "idle"
                   /\ UNCHANGED <<inbox, bidx>>
    /\ UNCHANGED <<listeners, conn, hpc, bmsg, btargets, srv, openAtStop>>

\* update/moved: the for loop is exhausted
broadcast_end ==
    /\ bpc = "iter"
    /\ bidx > Len(listeners)
    /\ bpc' = "idle"
    /\ UNCHANGED <<listeners, conn, hpc, inbox, bidx, bmsg, btargets, battempt, bfail,
                   srv, openAtStop>>

\* run, lines 261-268: web.run_app returns.  Its cleanup closed every
\* connection; every handler has either ended, and removed its listener,
\* or was cancelled inside the async for, and left it in the list.
run_app_exit ==
    /\ srv = "running"
    /\ \E cancelled \in SUBSET {l \in Sockets : hpc[l] = "loop"} :
          /\ hpc' = [l \in Sockets |->
                 IF l \in cancelled THEN "failed"
                 ELSE IF hpc[l] \in {"loop", "exited"} THEN "done"
                 ELSE hpc[l]]
          /\ listeners' = SelectSeq(listeners,
                 LAMBDA l : ~(hpc[l] \in {"loop", "exited"} /\ l \notin cancelled))
    /\ openAtStop' = {l \in Sockets : conn[l] = "open"}
    /\ conn' = [l \in Sockets |-> IF conn[l] = "open" THEN "closed" ELSE conn[l]]
    /\ srv' = "torn_down"
    /\ UNCHANGED <<inbox, bpc, bidx, bmsg, btargets, battempt, bfail>>

\* run, lines 260-276: the steps of the shutdown that are done, in the order
\* they were done
ShutdownSteps ==
    CASE srv = "running" -> <<>>
      [] srv = "torn_down" -> <<"stop_accepting">>
      [] srv = "observer_stopped" -> <<"stop_accepting", "stop_watcher">>
      [] srv = "stopped" -> <<"stop_accepting", "stop_watcher", "notify_listeners">>

\* run, lines 270-271: self.observer.stop(); self.observer.join()
observer_stop ==
    /\ srv = "torn_down"
    /\ srv' = "observer_stopped"
    /\ UNCHANGED <<listeners, conn, hpc, inbox, bpc, bidx, bmsg, btargets, battempt,
                   bfail, openAtStop>>

\* run, lines 274-276, and close_all: a "closed" message is sent to every
\* listener of the list; it arrives where the connection is still open
close_all ==
    /\ srv = "observer_stopped"
    /\ inbox' = [l \in Sockets |->
           IF l \in Range(listeners) /\ conn[l] = "open"
           THEN inbox[l] \cup {Closed} ELSE inbox[l]]
    /\ srv' = "stopped"
    /\ UNCHANGED <<listeners, conn, hpc, bpc, bidx, bmsg, btargets, battempt, bfail,
                   openAtStop>>

-----------------------------------------------------------------------------
(* Push variant: the injected page script (INJECT) and load_file            *)

\* Text messages a page's script or another client sends besides fetch
ChannelKinds == {"open", "notype", "nonobject"}

\* the paths of the served pages relative to the root: the {path} a page's
\* script is rendered with, and the message of an update for its file
HtmlIds == {UpdatePath(f) : f \in HtmlPaths}

\* The text of the served files, as a sequence of pieces: "</head>" is what
\* the search for r"<\/.*head.*>" finds, "<html lang>" what the search for
\* "<html.+>" finds.  a.html has a head, b.html is a fragment with neither.
Contents(f) ==
    IF f = <<"a", ".", "h", "t", "m", "l">>
    THEN <<"<html lang>", "<head>", "</head>", "<body>">>
    ELSE <<"<p>">>

\* INJECT.format(path=filename)
INJECT(path) == <<"<meta>">> \o path \o <<"<script>">>

\* the characters of a piece; every piece is a line of its own
PieceChars(tok) ==
    CASE tok = "<html lang>" -> <<"<", "h", "t", "m", "l", " ", "l", "a", "n", "g", ">">>
      [] tok = "<html>"      -> <<"<", "h", "t", "m", "l", ">">>
      [] tok = "<head>"      -> <<"<", "h", "e", "a", "d", ">">>
      [] tok = "</head>"     -> <<"<", "/", "h", "e", "a", "d", ">">>
      [] tok = "</header>"   -> <<"<", "/", "h", "e", "a", "d", "e", "r", ">">>
      [] tok = "<body>"      -> <<"<", "b", "o", "d", "y", ">">>
      [] tok = "<p>"         -> <<"<", "p", ">">>
      [] OTHER               -> <<>>

\* r"<\/.*head.*>"
HeadCloseRe == <<"<", "/", ".*", "h", "e", "a", "d", ".*", ">">>

\* "<html.+>"
HtmlOpenRe == <<"<", "h", "t", "m", "l", ".", ".*", ">">>

\* re.search(re, line): the expression matches at some position of the line
Search(re, line) == \E i \in 0..Len(line) : ReMatch(re, Drop(line, i), FALSE)

\* re.search(re, data): index of the first piece the expression matches in,
\* 0 when there is none ("." matches no line end)
Find(data, re) ==
    LET idx == {i \in 1..Len(data) : Search(re, PieceChars(data[i]))}
    IN  IF idx = {} THEN 0 ELSE CHOOSE i \in idx : \A j \in idx : i <= j

\* load_file, lines 298-322: the text data of the html file f with the
\* script put in front of what the first search finds, or in a new head after
\* what the second finds; with neither, INJECT.format(filename=filename)
\* raises KeyError, as INJECT has no {filename} field
inject_html(data, f) ==
    LET h == Find(data, HeadCloseRe)
        t == Find(data, HtmlOpenRe)
    IN  IF h # 0
        THEN [kind |-> "data",
              data |-> Take(data, h - 1) \o INJECT(f) \o Drop(data, h - 1)]
        ELSE IF t # 0
             THEN [kind |-> "data",
                   data |-> Take(data, t) \o <<"<head>">> \o INJECT(f)
                                \o <<"</head>">> \o Drop(data, t)]
        ELSE [kind |-> "raise", data |-> <<>>]

\* load_file, lines 291-327, for an html file: None when the path does not
\* exist; the script is put in front of the closing head tag, or in a new
\* head after the html tag; with neither, INJECT.format(filename=filename)
\* raises KeyError, as INJECT has no {filename} field
load_file(filename) ==
    LET f == ReplaceAll(filename, <<"\\">>, <<"/">>)
    IN  IF f \notin fs THEN [kind |-> "none", data |-> <<>>]
        ELSE inject_html(Contents(f), f)

\* the dom messages that reached client l
Doms(l) == {m \in inbox[l] : m.type = "dom"}

\* ws_refresh, line 363: {"type": "dom", "message": file.decode()}
DomMsg(l, data) ==
    [type |-> "dom", message |-> data, dest |-> <<>>, n |-> Cardinality(Doms(l)) + 1]

InitClientVars ==
    /\ reloadPath = [l \in Sockets |-> <<>>]
    /\ outbox = [l \in Sockets |-> {}]
    /\ fetchSent = [l \in Sockets |-> {}]
    /\ fs = HtmlIds

\* a page that exists was served, and its script opens the websocket with
\* the page's path as its identity (INJECT, lines 27-30)
page_connect(l, id) ==
    /\ id \in fs
    /\ ws_connect(l)
    /\ reloadPath' = [reloadPath EXCEPT ![l] = id]
    /\ UNCHANGED <<outbox, fetchSent, fs>>

\* INJECT, lines 33-58: the script's message listener.  update: fetch is
\* sent when the message equals reloadPath; moved: reloadPath becomes dest
\* when src equals it
on_message(l, msg) ==
    /\ IF msg.type = "update" /\ msg.message = reloadPath[l]
       THEN /\ outbox' = [outbox EXCEPT ![l] = @ \cup {reloadPath[l]}]
            /\ fetchSent' = [fetchSent EXCEPT ![l] = @ \cup {msg.n}]
       ELSE UNCHANGED <<outbox, fetchSent>>
    /\ IF msg.type = "moved" /\ msg.message = reloadPath[l]
       THEN reloadPath' = [reloadPath EXCEPT ![l] = msg.dest]
       ELSE UNCHANGED reloadPath
    /\ UNCHANGED fs

\* one pass of the broadcast loop, and the script's reaction where the
\* message arrived
page_broadcast_send ==
    /\ broadcast_send
    /\ IF conn[listeners[bidx]] = "open"
       THEN on_message(listeners[bidx], bmsg)
       ELSE UNCHANGED clientVars

\* ws_refresh, lines 361-363: a fetch message is handled
ws_fetch(l) ==
    /\ srv = "running"
    /\ hpc[l] = "loop"
    /\ conn[l] = "open"
    /\ \E m \in outbox[l] :
          /\ outbox' = [outbox EXCEPT ![l] = @ \ {m}]
          /\ LET file == load_file(m)
             IN  CASE file.kind = "data" ->
                        /\ inbox' = [inbox EXCEPT ![l] = @ \cup {DomMsg(l, file.data)}]
                        /\ UNCHANGED <<conn, hpc>>
                   [] file.kind = "none" ->
                        UNCHANGED <<inbox, conn, hpc>>
                   [] file.kind = "raise" ->
                        /\ conn' = [conn EXCEPT ![l] = "closed"]
                        /\ hpc' = [hpc EXCEPT ![l] = "failed"]
                        /\ UNCHANGED inbox
    /\ UNCHANGED <<listeners, bpc, bidx, bmsg, btargets, battempt, bfail, srv, openAtStop,
                   reloadPath, fetchSent, fs>>

\* a served file is deleted
file_delete(f) ==
    /\ f \in fs
    /\ fs' = fs \ {f}
    /\ UNCHANGED <<pushVars, reloadPath, outbox, fetchSent>>

-----------------------------------------------------------------------------
(* The polling script (livereload_script) and LiveServer.stop               *)

\* no request of the script has ended yet
NoXhr == [status |-> 0, text |-> "none"]

\* the page is loaded and its script has called livereload() (line 43)
InitLiveVars ==
    /\ script = [c \in Clients |-> "send"]
    /\ sresp = [c \in Clients |-> NoXhr]
    /\ slog = [c \in Clients |-> 0]
    /\ lsrv = "running"

\* do_GET, line 185: bytes(f"{code}", "utf-8"), the text of the response
CodeText(c) == IF c = 1 THEN "1" ELSE "0"

\* parseInt(this.responseText); -1 stands for NaN, the value of a text that
\* does not begin with a number
parseInt(text) ==
    CASE text = "1" -> 1
      [] text = "0" -> 0
      [] OTHER -> -1

\* req.onloadend with the 3 second timer on every answer that is not 1
onloadend_backoff(c, status, text) ==
    /\ sresp' = [sresp EXCEPT ![c] = [status |-> status, text |-> text]]
    /\ IF parseInt(text) = 1
       THEN script' = [script EXCEPT ![c] = "reloading"] /\ UNCHANGED slog
       ELSE IF status # 0
            THEN script' = [script EXCEPT ![c] = "timer"] /\ UNCHANGED slog
       ELSE /\ script' = [script EXCEPT ![c] = "detached"]
            /\ slog' = [slog EXCEPT ![c] = @ + 1]

\* req.onloadend with a status 0 that keeps polling
onloadend_never_detach(c, status, text) ==
    /\ sresp' = [sresp EXCEPT ![c] = [status |-> status, text |-> text]]
    /\ IF parseInt(text) = 1
       THEN script' = [script EXCEPT ![c] = "reloading"] /\ UNCHANGED slog
       ELSE IF status = 200 \/ status = 0
            THEN script' = [script EXCEPT ![c] = "send"] /\ UNCHANGED slog
       ELSE script' = [script EXCEPT ![c] = "timer"] /\ UNCHANGED slog

\* req.onloadend, lines 21-39 of the script: reload on the answer 1; else
\* the next request at once on status 200, after 3 seconds on another status
\* that is not 0, and on status 0 one warning and no further request
onloadend(c, status, text) ==
    /\ sresp' = [sresp EXCEPT ![c] = [status |-> status, text |-> text]]
    /\ IF parseInt(text) = 1
       THEN script' = [script EXCEPT ![c] = "reloading"] /\ UNCHANGED slog
       ELSE IF status = 200
            THEN script' = [script EXCEPT ![c] = "send"] /\ UNCHANGED slog
       ELSE IF status # 0
            THEN script' = [script EXCEPT ![c] = "timer"] /\ UNCHANGED slog
       ELSE /\ script' = [script EXCEPT ![c] = "detached"]
            /\ slog' = [slog EXCEPT ![c] = @ + 1]

\* the script, lines 40-41: req.open, req.send; the server accepts the
\* request and do_GET begins
script_send(c) ==
    /\ script[c] = "send"
    /\ lsrv = "running"
    /\ do_GET_begin(c)
    /\ script' = [script EXCEPT ![c] = "inflight"]
    /\ UNCHANGED <<sresp, slog, lsrv>>

\* req.send while the server does not accept connections: the request ends
\* with status 0 and an empty responseText
script_send_refused(c) ==
    /\ script[c] = "send"
    /\ lsrv # "running"
    /\ onloadend(c, 0, "")
    /\ UNCHANGED <<pullVars, lsrv>>

\* the response of do_GET has arrived: status 200 and the code as text
script_response(c) ==
    /\ script[c] = "inflight"
    /\ pc[c] = "idle"
    /\ onloadend(c, last[c].status, CodeText(last[c].body))
    /\ UNCHANGED <<pullVars, lsrv>>

\* location.reload(), line 24: the page is fetched again and its script
\* calls livereload()
page_reload(c) ==
    /\ script[c] = "reloading"
    /\ lsrv = "running"
    /\ script' = [script EXCEPT ![c] = "send"]
    /\ sresp' = [sresp EXCEPT ![c] = NoXhr]
    /\ UNCHANGED <<pullVars, slog, lsrv>>

\* a file event while the watcher runs: update_file with the update callback
watched_update_file(src) ==
    /\ lsrv \in {"running", "server_stopped"}
    /\ update_file(src)
    /\ UNCHANGED liveVars

\* LiveServer.stop, line 183: self.server_thread.stop(); request threads are
\* daemon threads and are not waited for
server_thread_stop ==
    /\ lsrv = "running"
    /\ lsrv' = "server_stopped"
    /\ UNCHANGED <<pullVars, script, sresp, slog>>

\* LiveServer.stop, line 184: self.watchdog.stop()
watchdog_stop ==
    /\ lsrv = "server_stopped"
    /\ lsrv' = "watchdog_stopped"
    /\ UNCHANGED <<pullVars, script, sresp, slog>>

\* Queue.unfinished_tasks: the entries put and not yet marked task_done();
\* do_GET marks an entry right after it took it
unfinished_tasks == Len(reloads)

\* LiveServer.stop, line 185: self.reloads.join() returns when every entry
\* put was marked done, and stop returns
reloads_join ==
    /\ lsrv = "watchdog_stopped"
    /\ unfinished_tasks = 0
    /\ lsrv' = "stopped"
    /\ UNCHANGED <<pullVars, script, sresp, slog>>

\* Server.is_active, lines 226-233: set by serve_forever, cleared by shutdown
is_active == lsrv = "running"

\* Server.active, lines 235-237: return self.is_active
active == is_active

\* LiveServerThread.stopped, lines 60-62: return self.server.active()
stopped == active

-----------------------------------------------------------------------------
(* liveserver/watch.py: LiveWatchHandler                                    *)

\* Callback calls the model records (the handler runs for ever)
MaxEvents == 3

\* watchdog dispatches an event to on_created, on_modified or on_deleted by
\* its event_type
EventTypes == {"created", "modified", "deleted"}

\* Paths the watcher reports events for
EventPaths ==
    { <<"a", "/", "x">>, <<"a", "/", "x", "y">>, <<"a", "/", "y">>,
      <<"b", "/", "x">>, <<"s", ".", "j", "s">> }

Events == [type : EventTypes, is_directory : BOOLEAN, src_path : EventPaths]

\* LiveWatchHandler(..., ignore): the ignore patterns
Ignore == << <<"b", "/", "*", "*">>, <<"a", "/", "x">> >>

NoEvent == [type |-> "none", is_directory |-> FALSE, src_path |-> <<>>]

InitWatchVars ==
    /\ wlast = [event |-> NoEvent, called |-> "none"]
    /\ wcalls = <<>>

\* isinstance(event, FileModifiedEvent)
IsFileModifiedEvent(event) == event.type = "modified" /\ ~event.is_directory

\* all(match(ignore.regex(), src_path) is None for ignore in self._ignore)
NotIgnored(src_path) ==
    \A i \in 1..Len(Ignore) : ~ReMatch(regex(Ignore[i]), src_path, FALSE)

\* the body shared by the three handlers, lines 80-84, 88-92 and 96-100: the
\* callback clbk is called with src_path when the event is a
\* FileModifiedEvent that no ignore pattern matches
HandlerBody(event, clbk) ==
    LET src_path == posix(ServerPath(<<event.src_path>>))
    IN  /\ Len(wcalls) < MaxEvents
        /\ IF IsFileModifiedEvent(event) /\ NotIgnored(src_path)
           THEN /\ wcalls' = Append(wcalls, [clbk |-> clbk, src |-> src_path])
                /\ wlast' = [event |-> event, called |-> clbk]
           ELSE /\ wlast' = [event |-> event, called |-> "none"]
                /\ UNCHANGED wcalls

\* on_modified, lines 78-84, run by the debounce timer: self._update(src_path)
on_modified(event) == event.type = "modified" /\ HandlerBody(event, "update")

\* on_created, lines 86-92, run by the debounce timer: self._create(src_path)
on_created(event) == event.type = "created" /\ HandlerBody(event, "create")

\* on_deleted, lines 94-100, run by the debounce timer: self._update(src_path)
on_deleted(event) == event.type = "deleted" /\ HandlerBody(event, "update")

-----------------------------------------------------------------------------
(* Push variant: static_files and update applied to drawn documents, roots  *)
(* and request paths                                                        *)

\* Most lines of a drawn document
MaxDocLen == 3

\* the lines documents are made of
Pieces == {"<html lang>", "<html>", "</head>", "</header>", "<p>"}

Docs == StringsUpTo(Pieces, MaxDocLen)

\* WatchServer(root=...): the served roots ".", "s" and "./s"
WsRoots == { <<".">>, <<"s">>, <<".", "/", "s">> }

\* the html files under the root: "s.html" and "index.html"
WsFiles == { <<"s", ".", "h", "t", "m", "l">>,
             <<"i", "n", "d", "e", "x", ".", "h", "t", "m", "l">> }

\* request.match_info.get("path", ""): "/" and "/s.html"
PathArgs == { <<>>, <<"s", ".", "h", "t", "m", "l">> }

\* static_files, lines 381-395: the filename load_file is called with, the
\* request path when it names a file, else its index.html
static_filename(path_arg) ==
    IF path_arg \in WsFiles THEN path_arg
    ELSE IF path_arg = <<>> THEN <<"i", "n", "d", "e", "x", ".", "h", "t", "m", "l">>
    ELSE RStrip(path_arg, {"/"}) \o <<"/", "i", "n", "d", "e", "x", ".", "h", "t", "m", "l">>

\* run, line 235: observer.schedule(self.event_handler, self.root): the
\* src_path of an event is the watched path joined with the file's path
event_src_path(rt, rel) ==
    IF rt # <<>> /\ rt[Len(rt)] = "/" THEN rt \o rel ELSE rt \o <<"/">> \o rel

\* static_files, lines 373-398: the page is served with the script rendered
\* for its filename
apply_static_files ==
    /\ pstep = "input"
    /\ LET filename == static_filename(pin.path_arg)
           body     == inject_html(pin.doc, ReplaceAll(filename, <<"\\">>, <<"/">>))
       IN  pout' = [kind |-> body.kind, data |-> body.data,
                    id |-> ReplaceAll(filename, <<"\\">>, <<"/">>), upd |-> <<>>]
    /\ pstep' = "served"
    /\ UNCHANGED pin

\* on_modified, line 199, and update, lines 163-176: the served file changes
\* and the update message is built
apply_update ==
    /\ pstep = "served"
    /\ pout' = [pout EXCEPT
                   !.upd = update_path(pin.root,
                               event_src_path(ReplaceAll(pin.root, <<"\\">>, <<"/">>),
                                              static_filename(pin.path_arg)))]
    /\ pstep' = "updated"
    /\ UNCHANGED pin

-----------------------------------------------------------------------------
(* Flag-dictionary variant: liveserver/server.py                            *)

\* posixpath.normpath: empty parts and "." parts dropped, a ".." part takes
\* the part before it away (and stays when there is none to take, or is
\* dropped at the root), a leading "/" kept, "." for the empty result
RECURSIVE NormParts(_, _, _)
NormParts(parts, acc, abs) ==
    IF parts = <<>> THEN acc
    ELSE LET p == Head(parts)
         IN  IF p = <<>> \/ p = <<".">> THEN NormParts(Tail(parts), acc, abs)
             ELSE IF p # <<".", ".">> THEN NormParts(Tail(parts), Append(acc, p), abs)
             ELSE IF acc # <<>> /\ acc[Len(acc)] # <<".", ".">>
                  THEN NormParts(Tail(parts), Take(acc, Len(acc) - 1), abs)
             ELSE IF abs THEN NormParts(Tail(parts), acc, abs)
             ELSE NormParts(Tail(parts), Append(acc, p), abs)

posixpath_normpath(path) ==
    LET abs    == path # <<>> /\ Head(path) = "/"
        joined == JoinSlash(NormParts(SplitSlash(path), <<>>, abs))
    IN  IF abs THEN <<"/">> \o joined
        ELSE IF joined = <<>> THEN <<".">> ELSE joined

\* translate_path(root, src), lines 60-61:
\* posixpath.normpath(src.lstrip(root)).rstrip("index.html").replace("\\", "/")
server_translate_path(rt, src) ==
    ReplaceAll(RStrip(posixpath_normpath(LStrip(src, CharsOf(rt))),
                      CharsOf(<<"i", "n", "d", "e", "x", ".", "h", "t", "m", "l">>)),
               <<"\\">>, <<"/">>)

\* default(src), lines 57-58: return True
server_default(path) == TRUE

\* LiveServer.__init__, root: str = ""
cacheRoot == <<>>

\* Files the watcher reports as changed
CacheSrcs == { <<"a", "/", "x">>, <<"b">> }

\* The paths the polls ask for: '/livereload/${path}'
CachePolls == { <<"a", "/">>, <<"b">>, <<"c">> }

NoAnswer == [path |-> <<>>, body |-> 0]

\* LiveServer.__init__, line 78: self.cache = {}
InitCacheVars ==
    /\ cache = << >>
    /\ cpc = [c \in Clients |-> "idle"]
    /\ cfile = [c \in Clients |-> <<>>]
    /\ ccode = [c \in Clients |-> 0]
    /\ cread = [c \in Clients |-> "none"]
    /\ clast = [c \in Clients |-> NoAnswer]
    /\ ones = [p \in CachePolls |-> 0]

\* update_cache(src, clbk), lines 90-94, with the default callback
update_cache(src) ==
    LET path   == server_translate_path(cacheRoot, src)
        result == server_default(path)
    IN  /\ cache' = [p \in DOMAIN cache \cup {path} |->
                        IF p = path THEN result ELSE cache[p]]
        /\ ones' = [p \in DOMAIN ones |-> IF p = path THEN 0 ELSE ones[p]]
        /\ UNCHANGED <<cpc, cfile, ccode, cread, clast>>

\* do_GET, lines 245-251: the request is a poll for p; file_path is the path
\* group, or "/" when it is empty; status 200 is sent, code = 0
cache_do_GET_begin(c, p) ==
    /\ cpc[c] = "idle"
    /\ cfile' = [cfile EXCEPT ![c] = IF p # <<>> THEN p ELSE <<"/">>]
    /\ ccode' = [ccode EXCEPT ![c] = 0]
    /\ cread' = [cread EXCEPT ![c] = "none"]
    /\ cpc' = [cpc EXCEPT ![c] = "in"]
    /\ UNCHANGED <<cache, clast, ones>>

\* do_GET, line 253: if file_path in self.server.cache
cache_do_GET_in(c) ==
    /\ cpc[c] = "in"
    /\ IF cfile[c] \in DOMAIN cache
       THEN /\ cpc' = [cpc EXCEPT ![c] = "read"]
            /\ UNCHANGED cread
       ELSE /\ cpc' = [cpc EXCEPT ![c] = "write"]
            /\ cread' = [cread EXCEPT ![c] = "absent"]
    /\ UNCHANGED <<cache, cfile, ccode, clast, ones>>

\* do_GET, lines 254 and 257-258: if self.server.cache[file_path], else code = 0
cache_do_GET_read(c) ==
    /\ cpc[c] = "read"
    /\ cread' = [cread EXCEPT ![c] = IF cache[cfile[c]] THEN "set" ELSE "clear"]
    /\ IF cache[cfile[c]]
       THEN /\ cpc' = [cpc EXCEPT ![c] = "reset"]
            /\ ones' = [ones EXCEPT ![cfile[c]] = @ + 1]
            /\ UNCHANGED ccode
       ELSE /\ cpc' = [cpc EXCEPT ![c] = "write"]
            /\ ccode' = [ccode EXCEPT ![c] = 0]
            /\ UNCHANGED ones
    /\ UNCHANGED <<cache, cfile, clast>>

\* do_GET with every flag of the dictionary reset
cache_do_GET_reset_all(c) ==
    /\ cpc[c] = "reset"
    /\ cache' = [p \in DOMAIN cache |-> FALSE]
    /\ ccode' = [ccode EXCEPT ![c] = 1]
    /\ cpc' = [cpc EXCEPT ![c] = "write"]
    /\ UNCHANGED <<cfile, cread, clast, ones>>

\* do_GET, lines 255-256: self.server.cache[file_path] = False; code = 1
cache_do_GET_reset(c) ==
    /\ cpc[c] = "reset"
    /\ cache' = [cache EXCEPT ![cfile[c]] = FALSE]
    /\ ccode' = [ccode EXCEPT ![c] = 1]
    /\ cpc' = [cpc EXCEPT ![c] = "write"]
    /\ UNCHANGED <<cfile, cread, clast, ones>>

\* do_GET, line 261: self.wfile.write(bytes(f"{code}", "utf-8"))
cache_do_GET_write(c) ==
    /\ cpc[c] = "write"
    /\ clast' = [clast EXCEPT ![c] = [path |-> cfile[c], body |-> ccode[c]]]
    /\ cpc' = [cpc EXCEPT ![c] = "idle"]
    /\ UNCHANGED <<cache, cfile, ccode, cread, ones>>

-----------------------------------------------------------------------------
(* Specifications                                                           *)

InitPull == InitPullVars /\ InitDebounceVars /\ InitPushVars /\ InitClientVars /\ InitWatchVars /\ InitLiveVars /\ InitPathVars /\ InitMsgVars /\ InitCacheVars

NextPull ==
    \/ \E src \in SrcPaths : update_file(src) /\ UNCHANGED <<debounceVars, pushVars, clientVars, pathVars, watchVars, liveVars, msgVars, cacheVars>>
    \/ reloads_put /\ UNCHANGED <<debounceVars, pushVars, clientVars, pathVars, watchVars, liveVars, msgVars, cacheVars>>
    \/ \E c \in Clients : do_GET_begin(c) /\ UNCHANGED <<debounceVars, pushVars, clientVars, pathVars, watchVars, liveVars, msgVars, cacheVars>>
    \/ \E c \in Clients : do_GET_qsize(c) /\ UNCHANGED <<debounceVars, pushVars, clientVars, pathVars, watchVars, liveVars, msgVars, cacheVars>>
    \/ \E c \in Clients : do_GET_get(c) /\ UNCHANGED <<debounceVars, pushVars, clientVars, pathVars, watchVars, liveVars, msgVars, cacheVars>>
    \/ \E c \in Clients : do_GET_timeout(c) /\ UNCHANGED <<debounceVars, pushVars, clientVars, pathVars, watchVars, liveVars, msgVars, cacheVars>>

SpecPull == InitPull /\ [][NextPull]_vars

InitDebounce == InitPullVars /\ InitDebounceVars /\ InitPushVars /\ InitClientVars /\ InitWatchVars /\ InitLiveVars /\ InitPathVars /\ InitMsgVars /\ InitCacheVars /\ page = [c \in Clients |-> <<"/">>]

NextDebounce ==
    \/ \E r \in Reprs :
          debounced_cancel([repr |-> r, id |-> Len(timers) + 1])
          /\ UNCHANGED <<pullVars, pushVars, clientVars, pathVars, watchVars, liveVars, msgVars, cacheVars>>
    \/ debounced_assign /\ UNCHANGED <<pullVars, pushVars, clientVars, pathVars, watchVars, liveVars, msgVars, cacheVars>>
    \/ debounced_start /\ UNCHANGED <<pullVars, pushVars, clientVars, pathVars, watchVars, liveVars, msgVars, cacheVars>>
    \/ \E t \in 1..Len(timers) : timer_expire(t) /\ UNCHANGED <<pullVars, pushVars, clientVars, pathVars, watchVars, liveVars, msgVars, cacheVars>>
    \/ \E t \in 1..Len(timers) : call_it_pop(t) /\ UNCHANGED <<pullVars, pushVars, clientVars, pathVars, watchVars, liveVars, msgVars, cacheVars>>
    \/ \E t \in 1..Len(timers) : call_it_func(t) /\ UNCHANGED <<pullVars, pushVars, clientVars, pathVars, watchVars, liveVars, msgVars, cacheVars>>
    \/ Tick /\ UNCHANGED <<pullVars, pushVars, clientVars, pathVars, watchVars, liveVars, msgVars, cacheVars>>

SpecDebounce == InitDebounce /\ [][NextDebounce]_vars

InitPush == InitPullVars /\ InitDebounceVars /\ InitPushVars /\ InitClientVars /\ InitWatchVars /\ InitLiveVars /\ InitPathVars /\ InitMsgVars /\ InitCacheVars /\ page = [c \in Clients |-> <<"/">>]

NextPush ==
    \/ \E l \in Sockets : ws_connect(l) /\ UNCHANGED <<pullVars, debounceVars, clientVars, pathVars, watchVars, liveVars, msgVars, cacheVars>>
    \/ \E l \in Sockets, kind \in MsgKinds :
          ws_text(l, kind) /\ UNCHANGED <<pullVars, debounceVars, clientVars, pathVars, watchVars, liveVars, msgVars, cacheVars>>
    \/ \E l \in Sockets : client_close(l) /\ UNCHANGED <<pullVars, debounceVars, clientVars, pathVars, watchVars, liveVars, msgVars, cacheVars>>
    \/ \E l \in Sockets : ws_loop_end(l) /\ UNCHANGED <<pullVars, debounceVars, clientVars, pathVars, watchVars, liveVars, msgVars, cacheVars>>
    \/ \E l \in Sockets : ws_remove(l) /\ UNCHANGED <<pullVars, debounceVars, clientVars, pathVars, watchVars, liveVars, msgVars, cacheVars>>
    \/ \E f \in HtmlPaths : update_begin(f) /\ UNCHANGED <<pullVars, debounceVars, clientVars, pathVars, watchVars, liveVars, msgVars, cacheVars>>
    \/ \E f, g \in HtmlPaths :
          f # g /\ moved_begin(f, g) /\ UNCHANGED <<pullVars, debounceVars, clientVars, pathVars, watchVars, liveVars, msgVars, cacheVars>>
    \/ broadcast_send /\ UNCHANGED <<pullVars, debounceVars, clientVars, pathVars, watchVars, liveVars, msgVars, cacheVars>>
    \/ broadcast_end /\ UNCHANGED <<pullVars, debounceVars, clientVars, pathVars, watchVars, liveVars, msgVars, cacheVars>>
    \/ run_app_exit /\ UNCHANGED <<pullVars, debounceVars, clientVars, pathVars, watchVars, liveVars, msgVars, cacheVars>>
    \/ observer_stop /\ UNCHANGED <<pullVars, debounceVars, clientVars, pathVars, watchVars, liveVars, msgVars, cacheVars>>
    \/ close_all /\ UNCHANGED <<pullVars, debounceVars, clientVars, pathVars, watchVars, liveVars, msgVars, cacheVars>>

SpecPush == InitPush /\ [][NextPush]_vars

\* the running push server with the scripts of its pages, while no
\* connection is closed by its client
NextChannel ==
    \/ \E l \in Sockets, id \in HtmlIds :
          page_connect(l, id) /\ UNCHANGED <<pullVars, debounceVars, pathVars, watchVars, liveVars, msgVars, cacheVars>>
    \/ \E l \in Sockets, kind \in ChannelKinds :
          ws_text(l, kind) /\ UNCHANGED <<pullVars, debounceVars, clientVars, pathVars, watchVars, liveVars, msgVars, cacheVars>>
    \/ \E l \in Sockets : ws_fetch(l) /\ UNCHANGED <<pullVars, debounceVars, pathVars, watchVars, liveVars, msgVars, cacheVars>>
    \/ \E f \in HtmlPaths : update_begin(f) /\ UNCHANGED <<pullVars, debounceVars, clientVars, pathVars, watchVars, liveVars, msgVars, cacheVars>>
    \/ \E f, g \in HtmlPaths :
          f # g /\ moved_begin(f, g) /\ UNCHANGED <<pullVars, debounceVars, clientVars, pathVars, watchVars, liveVars, msgVars, cacheVars>>
    \/ page_broadcast_send /\ UNCHANGED <<pullVars, debounceVars, pathVars, watchVars, liveVars, msgVars, cacheVars>>
    \/ broadcast_end /\ UNCHANGED <<pullVars, debounceVars, clientVars, pathVars, watchVars, liveVars, msgVars, cacheVars>>
    \/ \E f \in HtmlIds : file_delete(f) /\ UNCHANGED <<pullVars, debounceVars, pathVars, watchVars, liveVars, msgVars, cacheVars>>

SpecChannel == InitPush /\ [][NextChannel]_vars

\* the connections of the push server and the text messages of every kind,
\* with no broadcast
NextMessage ==
    \/ \E l \in Sockets : ws_connect(l) /\ UNCHANGED <<pullVars, debounceVars, clientVars, pathVars, watchVars, liveVars, msgVars, cacheVars>>
    \/ \E l \in Sockets, kind \in TextKinds :
          ws_receive(l, kind) /\ UNCHANGED <<pullVars, debounceVars, clientVars, pathVars, watchVars, liveVars, cacheVars>>
    \/ \E l \in Sockets : client_close(l) /\ UNCHANGED <<pullVars, debounceVars, clientVars, pathVars, watchVars, liveVars, msgVars, cacheVars>>
    \/ \E l \in Sockets : ws_loop_end(l) /\ UNCHANGED <<pullVars, debounceVars, clientVars, pathVars, watchVars, liveVars, msgVars, cacheVars>>
    \/ \E l \in Sockets : ws_remove(l) /\ UNCHANGED <<pullVars, debounceVars, clientVars, pathVars, watchVars, liveVars, msgVars, cacheVars>>

SpecMessage == InitPush /\ [][NextMessage]_vars

\* a root, a request path and the text of the file it names are drawn
InitInject ==
    /\ InitPullVars /\ InitDebounceVars /\ InitPushVars /\ InitClientVars
    /\ InitWatchVars /\ InitLiveVars /\ InitMsgVars /\ InitCacheVars
    /\ page = [c \in Clients |-> <<"/">>]
    /\ \E d \in Docs, r \in WsRoots, p \in PathArgs :
          pin = [doc |-> d, root |-> r, path_arg |-> p]
    /\ pstep = "input"
    /\ pout = [kind |-> "none", data |-> <<>>, id |-> <<>>, upd |-> <<>>]

NextInject ==
    \/ apply_static_files /\ UNCHANGED <<pullVars, debounceVars, pushVars, clientVars, watchVars, liveVars, msgVars, cacheVars>>
    \/ apply_update /\ UNCHANGED <<pullVars, debounceVars, pushVars, clientVars, watchVars, liveVars, msgVars, cacheVars>>

SpecInject == InitInject /\ [][NextInject]_vars

NextCache ==
    \/ \E src \in CacheSrcs : update_cache(src) /\ UNCHANGED <<pullVars, debounceVars, pushVars, clientVars, pathVars, watchVars, liveVars, msgVars>>
    \/ \E c \in Clients, p \in CachePolls : cache_do_GET_begin(c, p) /\ UNCHANGED <<pullVars, debounceVars, pushVars, clientVars, pathVars, watchVars, liveVars, msgVars>>
    \/ \E c \in Clients : cache_do_GET_in(c) /\ UNCHANGED <<pullVars, debounceVars, pushVars, clientVars, pathVars, watchVars, liveVars, msgVars>>
    \/ \E c \in Clients : cache_do_GET_read(c) /\ UNCHANGED <<pullVars, debounceVars, pushVars, clientVars, pathVars, watchVars, liveVars, msgVars>>
    \/ \E c \in Clients : cache_do_GET_reset(c) /\ UNCHANGED <<pullVars, debounceVars, pushVars, clientVars, pathVars, watchVars, liveVars, msgVars>>
    \/ \E c \in Clients : cache_do_GET_write(c) /\ UNCHANGED <<pullVars, debounceVars, pushVars, clientVars, pathVars, watchVars, liveVars, msgVars>>

SpecCache == InitPush /\ [][NextCache]_vars

InitPath == InitPullVars /\ InitDebounceVars /\ InitPushVars /\ InitClientVars /\ InitWatchVars /\ InitLiveVars /\ InitPathInputs /\ InitMsgVars /\ InitCacheVars /\ page = [c \in Clients |-> <<"/">>]

NextPath ==
    \/ apply_translate_path /\ UNCHANGED <<pullVars, debounceVars, pushVars, clientVars, watchVars, liveVars, msgVars, cacheVars>>
    \/ apply_translate_path_again /\ UNCHANGED <<pullVars, debounceVars, pushVars, clientVars, watchVars, liveVars, msgVars, cacheVars>>
    \/ apply_relative_to /\ UNCHANGED <<pullVars, debounceVars, pushVars, clientVars, watchVars, liveVars, msgVars, cacheVars>>
    \/ apply_match /\ UNCHANGED <<pullVars, debounceVars, pushVars, clientVars, watchVars, liveVars, msgVars, cacheVars>>

SpecPath == InitPath /\ [][NextPath]_vars

InitWatch == InitPullVars /\ InitDebounceVars /\ InitPushVars /\ InitClientVars /\ InitWatchVars /\ InitLiveVars /\ InitPathVars /\ InitMsgVars /\ InitCacheVars /\ page = [c \in Clients |-> <<"/">>]

NextWatch ==
    \/ \E event \in Events :
          on_modified(event) /\ UNCHANGED <<pullVars, debounceVars, pushVars, clientVars, pathVars, liveVars, msgVars, cacheVars>>
    \/ \E event \in Events :
          on_created(event) /\ UNCHANGED <<pullVars, debounceVars, pushVars, clientVars, pathVars, liveVars, msgVars, cacheVars>>
    \/ \E event \in Events :
          on_deleted(event) /\ UNCHANGED <<pullVars, debounceVars, pushVars, clientVars, pathVars, liveVars, msgVars, cacheVars>>

SpecWatch == InitWatch /\ [][NextWatch]_vars

InitLive == InitPullVars /\ InitDebounceVars /\ InitPushVars /\ InitClientVars /\ InitWatchVars /\ InitLiveVars /\ InitPathVars /\ InitMsgVars /\ InitCacheVars

NextLive ==
    \/ \E src \in SrcPaths :
          watched_update_file(src) /\ UNCHANGED <<debounceVars, pushVars, clientVars, pathVars, watchVars, msgVars, cacheVars>>
    \/ reloads_put /\ UNCHANGED <<debounceVars, pushVars, clientVars, pathVars, watchVars, liveVars, msgVars, cacheVars>>
    \/ \E c \in Clients : script_send(c) /\ UNCHANGED <<debounceVars, pushVars, clientVars, pathVars, watchVars, msgVars, cacheVars>>
    \/ \E c \in Clients : script_send_refused(c) /\ UNCHANGED <<debounceVars, pushVars, clientVars, pathVars, watchVars, msgVars, cacheVars>>
    \/ \E c \in Clients : do_GET_qsize(c) /\ UNCHANGED <<debounceVars, pushVars, clientVars, pathVars, watchVars, liveVars, msgVars, cacheVars>>
    \/ \E c \in Clients : do_GET_get(c) /\ UNCHANGED <<debounceVars, pushVars, clientVars, pathVars, watchVars, liveVars, msgVars, cacheVars>>
    \/ \E c \in Clients : do_GET_timeout(c) /\ UNCHANGED <<debounceVars, pushVars, clientVars, pathVars, watchVars, liveVars, msgVars, cacheVars>>
    \/ \E c \in Clients : script_response(c) /\ UNCHANGED <<debounceVars, pushVars, clientVars, pathVars, watchVars, msgVars, cacheVars>>
    \/ \E c \in Clients : page_reload(c) /\ UNCHANGED <<debounceVars, pushVars, clientVars, pathVars, watchVars, msgVars, cacheVars>>
    \/ server_thread_stop /\ UNCHANGED <<debounceVars, pushVars, clientVars, pathVars, watchVars, msgVars, cacheVars>>
    \/ watchdog_stop /\ UNCHANGED <<debounceVars, pushVars, clientVars, pathVars, watchVars, msgVars, cacheVars>>
    \/ reloads_join /\ UNCHANGED <<debounceVars, pushVars, clientVars, pathVars, watchVars, msgVars, cacheVars>>

SpecLive == InitLive /\ [][NextLive]_vars

-----------------------------------------------------------------------------
(* Properties of the pull variant                                           *)

\* the path do_GET computes for the polls of client c
PolledPath(c) == translate_path(root, page[c])

\* C1: when a poll ends, every queue entry it took that does not match the
\* polled path is pending in the queue
C1_UnmatchedStayPending ==
    [][\A c \in Clients :
          (pc[c] # "idle" /\ pc'[c] = "idle") => taken[c] \subseteq Range(reloads')]_vars

\* an entry that matches what client c polls is pending, or in the hands of
\* a poll that is running, or a running poll for the path c polls has
\* matched one
DeliverableTo(c) ==
    \/ \E i \in 1..Len(reloads) : reload_matches(reloads[i], PolledPath(c))
    \/ \E d \in Clients :
          pc[d] # "idle" /\ \E e \in taken[d] : reload_matches(e, PolledPath(c))
    \/ \E d \in Clients :
          pc[d] # "idle" /\ code[d] = 1 /\ file_path[d] = PolledPath(c)

\* C6: when a path that matches what a client polls was enqueued, and no
\* poll for that path has been answered 1 since, the entry can still be
\* delivered: where this fails the client polls for ever without the 1 it
\* was to receive
C6_EnqueuedIsDelivered ==
    \A c \in Clients : owed[c] = "path" => DeliverableTo(c)

\* C7: after one path P was put onto the empty queue, with no further change
\* and no overlapping poll, the first poll for P answers 1 and the poll for P
\* that follows it answers 0
C7_RoundTrip ==
    /\ scen.phase = "first" => scen.b1 = 1
    /\ scen.phase = "second" => (scen.b1 = 1 /\ scen.b2 = 0)

C7_Witness == scen.phase = "second" /\ scen.b1 = 1 /\ scen.b2 = 0

\* C8: every poll is answered with status 200 and body 0 or 1, and a poll
\* that no other poll overlaps answers 1 exactly when an entry matching the
\* whole polled path was in the queue during the poll
C8_PollAnswer ==
    [][\A c \in Clients :
          (pc[c] # "idle" /\ pc'[c] = "idle") =>
              /\ last'[c].status = 200
              /\ last'[c].body \in {0, 1}
              /\ alone[c] => (last'[c].body = 1 <=> hadMatch[c])]_vars

\* a poll alone in the server took an entry for another path and one that
\* matches, and is about to answer
C8_Witness ==
    \E c \in Clients :
        /\ pc[c] = "loop" /\ reloads = <<>> /\ alone[c]
        /\ hadMatch[c] /\ taken[c] # {} /\ code[c] = 1

\* C19 as stated: a poll whose get() timed out answers status 200 and body 0
C19_FailureAnswersZero ==
    [][\A c \in Clients :
          (pc[c] = "get" /\ pc'[c] = "idle")
              => last'[c] = [status |-> 200, body |-> 0]]_vars

\* C19 amended: a poll whose get() timed out answers status 200 and the body
\* computed so far: 1 when an entry it took before the failure matched, 0
\* otherwise
C19_FailureAnswersCodeSoFar ==
    [][\A c \in Clients :
          (pc[c] = "get" /\ pc'[c] = "idle")
              => /\ last'[c].status = 200
                 /\ last'[c].body = (IF matched[c] THEN 1 ELSE 0)]_vars

\* a poll that has matched an entry waits in get() on the queue another
\* poll has emptied
C19_Witness ==
    \E c \in Clients :
        pc[c] = "get" /\ reloads = <<>> /\ matched[c] /\ code[c] = 1 /\ ~alone[c]

\* the steps a poll can still take, as long as nothing is enqueued
DrainMeasure(c) == 2 * Len(reloads) + (IF pc[c] = "loop" THEN 1 ELSE 0)

\* C20: every step of a poll ends it or brings it nearer to its end,
\* whatever the other polls and the watcher do in between: a poll takes at
\* most two steps for each entry queued before or during the drain, and its
\* only wait, get() on a queue emptied by another poll, ends by the timeout
C20_PollTerminates ==
    [][\A c \in Clients :
          (pc[c] # "idle" /\ pc'[c] # pc[c])
              => (pc'[c] = "idle" \/ DrainMeasure(c)' < DrainMeasure(c))]_vars

\* a poll that another poll overlaps waits in get() on the emptied queue
\* while the watcher is enqueuing
C20_Witness ==
    \E c \in Clients :
        pc[c] = "get" /\ reloads = <<>> /\ ~alone[c] /\ toPut # <<>>

\* C9: once the queue is drained and every poll is answered, each client has
\* received 1 since the wildcard "**" was enqueued, whatever path it polls
C9_WildcardReloadsEveryPage ==
    (reloads = <<>> /\ toPut = <<>> /\ \A c \in Clients : pc[c] = "idle")
        => \A c \in Clients : owed[c] # "wild"

-----------------------------------------------------------------------------
(* Properties of the debouncer                                              *)

\* the timers created for key k, in creation order
TimersOf(k) == {t \in 1..Len(timers) : timers[t].key = k}

\* every invocation with key k arrived while the timer of the invocation
\* before it, if any, was started and had not expired
Burst(k) == TimersOf(k) # {} /\ \A t \in TimersOf(k) : timers[t].early

\* the calls of the underlying function made for key k
InvokedFor(k) == {i \in 1..Len(invoked) : invoked[i].key = k}

\* C2: of the invocations of one key, each arriving before the timer of the
\* one before it expired, only the last one's timer calls the underlying
\* function: at most once while it runs, exactly once when it is done, with
\* the arguments of the last invocation; the timers before it are cancelled
\* and the last one is started
C2_DebounceCoalesces ==
    \A k \in Keys :
        Burst(k) =>
            /\ \A i \in InvokedFor(k) :
                  /\ invoked[i].timer = LastTimer(k)
                  /\ invoked[i].args = timers[LastTimer(k)].args
            /\ Cardinality(InvokedFor(k)) <= 1
            /\ \A t \in TimersOf(k) \ {LastTimer(k)} : timers[t].state = "cancelled"
            /\ dpc = "idle" =>
                  timers[LastTimer(k)].state \in
                      {"waiting", "expired", "popped", "done", "failed"}
            /\ timers[LastTimer(k)].state \in {"done", "failed"}
                  => Cardinality(InvokedFor(k)) = 1

\* three invocations of one key in a burst, and the one call they led to
C2_Witness ==
    \E k \in Keys :
        /\ Burst(k)
        /\ Cardinality(TimersOf(k)) >= 2
        /\ timers[LastTimer(k)].state = "done"
        /\ Cardinality(InvokedFor(k)) = 1
        /\ \A i \in InvokedFor(k) : invoked[i].args.id = LastTimer(k)

\* the time of the most recent invocation with key k
LastInvocationAt(k) ==
    LET ats == {timers[t].at : t \in TimersOf(k)}
                 \cup (IF dpc # "idle" /\ dcur.key = k THEN {dcur.at} ELSE {})
    IN  CHOOSE a \in ats : \A b \in ats : b <= a

\* C11: when the underlying function is called for a key, the most recent
\* invocation with that key is at least the delay old
C11_QuietPeriod ==
    [][\A t \in 1..Len(timers) :
          (timers[t].state = "popped" /\ timers'[t].state \in {"done", "failed"})
              => now - LastInvocationAt(timers[t].key) >= WAIT]_vars

\* C12: a step of an invocation with one key leaves the table entry and
\* every timer of any other key as they are: not cancelled, not restarted,
\* their start time unchanged
C12_KeysIndependent ==
    [][\A k \in Keys :
          (dpc' # dpc /\ dcur'.key # k)
              => /\ caller'[k] = caller[k]
                 /\ \A t \in TimersOf(k) : timers'[t] = timers[t]]_vars

\* an invocation with key A has cancelled A's pending timer while the timer
\* of key B waits
C12_Witness ==
    \E a, b \in Keys :
        /\ a # b
        /\ dpc = "assign" /\ dcur.key = a
        /\ caller[a] # 0 /\ timers[caller[a]].state = "cancelled"
        /\ LastTimer(b) # 0 /\ timers[LastTimer(b)].state = "waiting"

\* C13: when the underlying function has raised, the timer that called it
\* is not in the table, it has ended, and it called the function once
C13_FailedCallbackLeavesNoEntry ==
    \A i \in 1..Len(invoked) :
        invoked[i].raised =>
            /\ caller[invoked[i].key] # invoked[i].timer
            /\ timers[invoked[i].timer].state = "failed"
            /\ Cardinality({j \in 1..Len(invoked) :
                                invoked[j].timer = invoked[i].timer}) = 1

\* the function raised, and a later invocation with the same key started a
\* new timer
C13_Witness ==
    \E i \in 1..Len(invoked) :
        /\ invoked[i].raised
        /\ LastTimer(invoked[i].key) > invoked[i].timer
        /\ timers[LastTimer(invoked[i].key)].state = "waiting"

\* C27: the step in which a firing timer removes the table entry of its key
\* leaves the entry alone when it holds another timer, the one a newer
\* invocation installed
C27_FiringRemovesOwnEntry ==
    [][\A t \in 1..Len(timers) :
          (timers[t].state = "expired" /\ timers'[t].state = "popped"
               /\ caller[timers[t].key] # t)
              => caller'[timers[t].key] = caller[timers[t].key]]_vars

\* the timers of key k that are started, not cancelled and have not fired
Pending(k) == {t \in TimersOf(k) : timers[t].state = "waiting"}

\* C30: a key never has two pending timers, and the step of an invocation
\* that looks up the table cancels every pending timer of its key
C30_OnePendingTimerPerKey ==
    [][/\ \A k \in Keys : Cardinality(Pending(k))' <= 1
       /\ (dpc = "idle" /\ dpc' = "assign") =>
              \A t \in Pending(dcur'.key) : timers'[t].state = "cancelled"]_vars

-----------------------------------------------------------------------------
(* Properties of the push variant                                           *)

\* C3: when an update broadcast has ended, every listener that was connected
\* and identified when it began, and is still connected, has received it
C3_UpdateReachesEveryListener ==
    (bpc = "idle" /\ bmsg.type = "update") =>
        \A l \in btargets : conn[l] = "open" => bmsg \in inbox[l]

\* C4: when a send of a broadcast (update or moved) failed, the other
\* listeners of that broadcast that are still connected have received it
C4_FailingListenerIsIsolated ==
    (bpc = "idle" /\ bfail # 0) =>
        \A l \in btargets \ {bfail} : conn[l] = "open" => bmsg \in inbox[l]

\* C5: when the server has stopped, every listener whose connection was open
\* when the stop began has received the "closed" message
C5_ClosedBeforeTeardown ==
    srv = "stopped" => \A l \in openAtStop : Closed \in inbox[l]

\* C10: a listener whose handler has ended, by a close from the client, a
\* closed transport or a failure, is not in the fan-out list
C10_NoDeadListener ==
    \A l \in Sockets : hpc[l] \in {"done", "failed"} => l \notin Range(listeners)

\* C28: while the server runs and handlers add and remove their listeners,
\* a broadcast whose loop ends without a failed send has attempted a send to
\* every listener that was identified when it began and is still in the
\* list; no send of the loop goes to a listener the broadcast has already
\* sent to; and a handler's removal takes exactly its own one entry out
C28_ListenerSetSynchronized ==
    [][(srv = "running" /\ srv' = "running") =>
          /\ (bpc = "iter" /\ bpc' = "idle" /\ bfail' = 0) =>
                \A l \in btargets : l \in Range(listeners') => l \in battempt'
          /\ (bpc = "iter" /\ bidx' = bidx + 1) => listeners[bidx] \notin battempt
          /\ \A l \in Sockets :
                (hpc[l] = "exited" /\ hpc'[l] = "done") =>
                    /\ l \in Range(listeners) /\ l \notin Range(listeners')
                    /\ Len(listeners') = Len(listeners) - 1]_vars

\* C14: in the shutdown, the listeners are notified after the server
\* stopped accepting and before the file watcher is stopped: a watcher stop
\* among the steps done is preceded by the notification
C14_ShutdownOrder ==
    \A i \in 1..Len(ShutdownSteps) :
        /\ ShutdownSteps[i] = "notify_listeners" =>
              \E j \in 1..(i - 1) : ShutdownSteps[j] = "stop_accepting"
        /\ ShutdownSteps[i] = "stop_watcher" =>
              \E j \in 1..(i - 1) : ShutdownSteps[j] = "notify_listeners"

-----------------------------------------------------------------------------
(* Properties of the push variant with the pages' scripts                   *)

\* the text of file f is in data, piece by piece
Carries(data, f) == \A i \in 1..Len(Contents(f)) : Contents(f)[i] \in Range(data)

\* C15: the step that handles a fetch for an existing resource sends exactly
\* one message, a dom message with the resource's content; the step that
\* handles a fetch for a missing resource sends nothing and leaves the
\* channel open, its handler in the loop and its listener registered
C15_FetchAnswered ==
    [][\A l \in Sockets : \A m \in outbox[l] \ outbox'[l] :
          IF m \in fs
          THEN /\ Cardinality(inbox'[l] \ inbox[l]) = 1
               /\ \A d \in inbox'[l] \ inbox[l] :
                     d.type = "dom" /\ Carries(d.message, m)
          ELSE /\ inbox'[l] = inbox[l]
               /\ conn'[l] = "open"
               /\ hpc'[l] = "loop"
               /\ l \in Range(listeners')]_vars

\* C16: the step that handles a text message without a type leaves the
\* error message with the client, the channel open, the handler in its loop
\* and the listener in the fan-out list
C16_NoTypeAnswered ==
    [][\A l \in Sockets :
          ((ws_text(l, "notype") \/ ws_text(l, "nonobject")) /\ UNCHANGED clientVars) =>
              /\ ErrorMsg \in inbox'[l]
              /\ conn'[l] = "open"
              /\ hpc'[l] = "loop"
              /\ l \in Range(listeners')]_vars

\* the script of l sent fetch in reaction to the broadcast exactly if the
\* broadcast's path is the identity of l
FetchIffIdentity(l) == bmsg.n \in fetchSent[l] <=> bmsg.message = reloadPath[l]

\* C17: when an update broadcast has ended, every listener that was connected
\* and identified when it began, and is still connected, has received it,
\* and its script sent fetch exactly if the update's path is its identity
C17_FanoutWithClientFilter ==
    (bpc = "idle" /\ bmsg.type = "update") =>
        \A l \in btargets : conn[l] = "open" => (bmsg \in inbox[l] /\ FetchIffIdentity(l))

\* the part of C17 that is the script's: where the update arrived, fetch was
\* sent exactly if the update's path is the identity
C17_ClientFilter ==
    (bpc = "idle" /\ bmsg.type = "update") =>
        \A l \in Sockets : bmsg \in inbox[l] => FetchIffIdentity(l)

\* the script of l, on the message that arrives in this step: a moved whose
\* src is the identity makes dest the identity, any other leaves it; an
\* update makes it send fetch exactly if its path is the identity
ScriptReacts(l) ==
    \A m \in inbox'[l] \ inbox[l] :
        /\ m.type = "moved" =>
              reloadPath'[l] = (IF reloadPath[l] = m.message THEN m.dest ELSE reloadPath[l])
        /\ m.type = "update" =>
              /\ reloadPath'[l] = reloadPath[l]
              /\ m.n \in fetchSent'[l] <=> m.message = reloadPath[l]

\* C18: when a moved broadcast ends, every listener that was connected and
\* identified when it began, and is still connected, has received it; a
\* script that receives it rewrites its identity from src to dest and no
\* other, and updates are matched against the identity as it then is
C18_MoveRewritesIdentity ==
    [][/\ (bpc = "iter" /\ bpc' = "idle" /\ bmsg.type = "moved") =>
              \A l \in btargets : conn[l] = "open" => bmsg \in inbox'[l]
       /\ \A l \in Sockets : ScriptReacts(l)]_vars

\* the part of C18 that is the script's
C18_ScriptRewrites == [][\A l \in Sockets : ScriptReacts(l)]_vars

-----------------------------------------------------------------------------
(* Properties of the path functions                                         *)

\* the named segments minus the ".." segments among the first i of segs
Depth(segs, i) ==
    Cardinality({j \in 1..i : segs[j] \notin {<<>>, <<".">>, <<".", ".">>}})
        - Cardinality({j \in 1..i : segs[j] = <<".", ".">>})

\* the raw path leaves the directory it starts in through ".." segments
Escapes(raw) ==
    LET segs == SplitSlash(raw) IN \E i \in 1..Len(segs) : Depth(segs, i) < 0

\* the raw path is root or lies in it, and does not leave it
UnderRoot(rt, raw) ==
    IF rt = <<>> THEN ~Escapes(raw)
    ELSE /\ raw = rt \/ StartsWith(raw, rt \o <<"/">>)
         /\ ~Escapes(Drop(raw, Len(rt)))

\* C21: translate_path applied to a raw path that leaves the root through
\* ".." segments does not return a value
C21_EscapeRejected ==
    (pstep = "translated" /\ Escapes(pin.raw)) => pout.kind # "value"

\* C22: for a raw path under the root, translate_path applied to the
\* canonical path returns that canonical path
C22_NormalizeIdempotent ==
    (pstep = "translated_again" /\ UnderRoot(pin.root, pin.raw)) =>
        pout.val = translate_path(pin.root, pin.raw)

\* glob matching segment by segment: "*" takes one segment, "**" any
\* number, any other segment takes the segment equal to it
RECURSIVE GlobSegs(_, _)
GlobSegs(pat, segs) ==
    IF pat = <<>> THEN segs = <<>>
    ELSE IF Head(pat) = <<"*", "*">>
         THEN \E k \in 0..Len(segs) : GlobSegs(Tail(pat), Drop(segs, k))
    ELSE /\ segs # <<>>
         /\ Head(pat) = <<"*">> \/ Head(pat) = Head(segs)
         /\ GlobSegs(Tail(pat), Tail(segs))

\* C23: the match of a pattern against a path answers what glob matching
\* of the pattern's segments against the path's segments answers
C23_GlobMatching ==
    pstep = "matched" =>
        (pout.val <=> GlobSegs(SplitSlash(pin.pat), SplitSlash(pin.subj)))

-----------------------------------------------------------------------------
(* Properties of the watch handler                                          *)

\* the callback of an event type
CallbackOf(type) ==
    CASE type = "created" -> "create"
      [] type = "modified" -> "update"
      [] type = "deleted" -> "remove"

\* C24: the handler of a file event whose path no ignore pattern matches has
\* called the callback of the event's type: create for created, update for
\* modified, remove for deleted
C24_EventReachesCallback ==
    (/\ wlast.event.type \in EventTypes
     /\ ~wlast.event.is_directory
     /\ NotIgnored(wlast.event.src_path)) =>
        wlast.called = CallbackOf(wlast.event.type)

-----------------------------------------------------------------------------
(* Properties of the polling script and of LiveServer.stop                  *)

\* a request of the script of c ends in this step
RequestEnds(c) ==
    /\ script[c] \in {"send", "inflight"}
    /\ script'[c] # "inflight"
    /\ script'[c] # script[c] \/ sresp'[c] # sresp[c]

\* C25: when a request of the script ends with the answer 0, the script
\* waits for its backoff timer and does not send the next request at once
C25_BackoffAfterZero ==
    [][\A c \in Clients :
          (RequestEnds(c) /\ sresp'[c].status # 0 /\ parseInt(sresp'[c].text) = 0) =>
              script'[c] = "timer"]_vars

\* C25 as the script has it: a request that ends with an HTTP response has
\* status 200, and when the answer is 0 the script sends its next request at
\* once, without the timer
C25_RepollAfterZero ==
    [][\A c \in Clients :
          (RequestEnds(c) /\ sresp'[c].status # 0) =>
              /\ sresp'[c].status = 200
              /\ parseInt(sresp'[c].text) = 0 => script'[c] = "send"]_vars

\* the script of a client is about to poll again right after the answer 0
C25_Witness ==
    \E c \in Clients : script[c] = "send" /\ sresp[c] = [status |-> 200, text |-> "0"]

\* C26: a request that ends with an HTTP response other than 1 is followed
\* by a further poll, at once or after the timer, and no warning; one that
\* ends with status 0 detaches the script with one warning, for good; one
\* that ends with the answer 1 reloads the page, and the script polls no more
C26_PollingProtocol ==
    [][\A c \in Clients :
          /\ (RequestEnds(c) /\ sresp'[c].status # 0 /\ parseInt(sresp'[c].text) # 1) =>
                script'[c] \in {"send", "timer"} /\ slog'[c] = slog[c]
          /\ (RequestEnds(c) /\ sresp'[c].status = 0) =>
                script'[c] = "detached" /\ slog'[c] = slog[c] + 1
          /\ (RequestEnds(c) /\ parseInt(sresp'[c].text) = 1) =>
                script'[c] = "reloading" /\ slog'[c] = slog[c]
          /\ script[c] = "detached" =>
                script'[c] = "detached" /\ slog'[c] = 1 /\ pc'[c] = pc[c]
          /\ script[c] = "reloading" => pc'[c] = pc[c]]_vars

\* one script is detached after polls that were answered 0, the other is
\* reloading after the answer 1
C26_Witness ==
    \E c, d \in Clients :
        /\ script[c] = "detached" /\ slog[c] = 1 /\ last[c] = [status |-> 200, body |-> 0]
        /\ script[d] = "reloading" /\ sresp[d] = [status |-> 200, text |-> "1"]

\* C29: once the server thread and the watcher are stopped and no request
\* thread and no callback is still at work, stop can return
C29_StopReturns ==
    (/\ lsrv = "watchdog_stopped"
     /\ toPut = <<>>
     /\ \A c \in Clients : pc[c] = "idle") => ENABLED reloads_join

\* C38: stopped() returns false while the server is serving and true once the
\* server has been shut down
C38_StoppedReportsStop == stopped <=> lsrv # "running"

\* C33: a poll that no other poll overlaps leaves no entry for its path on the
\* queue, however many were enqueued: it answers 1 when there was one, and a
\* poll that finds none (the next one, with no new change) answers 0
C33_OnePollClearsPath ==
    [][\A c \in Clients :
          (pc[c] # "idle" /\ pc'[c] = "idle" /\ alone[c]) =>
              /\ \A i \in 1..Len(reloads') : ~reload_matches(reloads'[i], file_path[c])
              /\ hadMatch[c] => last'[c].body = 1
              /\ ~hadMatch[c] => last'[c].body = 0]_vars

\* a poll alone in the server took one entry for its path and is about to
\* take a second entry for the same path
C33_Witness ==
    \E c \in Clients :
        /\ pc[c] = "get" /\ alone[c] /\ matched[c] /\ code[c] = 1
        /\ Len(reloads) = 1 /\ reload_matches(reloads[1], file_path[c])
        /\ toPut = <<>>

\* C34: a file-modified event is passed to the update callback if and only if
\* no ignore pattern matches its whole path; a pattern that matches only a
\* prefix of the path does not suppress the event
C34_IgnoreAnchored ==
    (wlast.event.type = "modified" /\ ~wlast.event.is_directory) =>
        (wlast.called = "update" <=>
            \A i \in 1..Len(Ignore) :
                ~ReMatch(regex(Ignore[i]), posix(ServerPath(<<wlast.event.src_path>>)), TRUE))

\* C35: a text message whose type is none of the known tags is answered with
\* an error message on that channel
C35_UnknownTypeAnswered ==
    [][\A l \in Sockets :
          (handled'[l] = "unknown" /\ handled[l] # "unknown") =>
              ErrorMsg \in inbox'[l]]_vars

\* C31: a poll for path P answers 1 exactly when it found P's flag set; it
\* changes the dictionary only by setting P's flag to false, and a poll for a
\* path with no entry answers 0 and changes nothing
C31_PollFrame ==
    [][\A c \in Clients :
          cpc'[c] # cpc[c] =>
              /\ \/ cache' = cache
                 \/ /\ cread[c] = "set"
                    /\ cfile[c] \in DOMAIN cache
                    /\ cache' = [cache EXCEPT ![cfile[c]] = FALSE]
              /\ cpc[c] = "in" =>
                    (cread'[c] = "absent" <=> cfile[c] \notin DOMAIN cache)
              /\ cpc[c] = "read" =>
                    (cread'[c] = "set" <=> cache[cfile[c]])
              /\ cread[c] = "absent" => cache' = cache
              /\ cpc'[c] = "idle" =>
                    /\ clast'[c].path = cfile[c]
                    /\ clast'[c].body = IF cread[c] = "set" THEN 1 ELSE 0]_vars

\* one poll answered 1 and reset its path's flag while the flag of another
\* path stays set, and a poll for a path with no entry answered 0
C31_Witness ==
    \E c, d \in Clients :
        /\ cpc[c] = "idle" /\ clast[c].body = 1 /\ ~cache[clast[c].path]
        /\ \E p \in DOMAIN cache : cache[p]
        /\ cpc[d] = "idle" /\ clast[d].path # <<>> /\ clast[d].path \notin DOMAIN cache
        /\ clast[d].body = 0

\* C32: one change to path P makes at most one poll answer 1, also when two
\* polls for P are handled at the same time
C32_OneAnswerPerChange == \A p \in CachePolls : ones[p] <= 1

\* index of the first line of doc that is one of toks, 0 when there is none
FirstLine(doc, toks) ==
    LET idx == {i \in 1..Len(doc) : doc[i] \in toks}
    IN  IF idx = {} THEN 0 ELSE CHOOSE i \in idx : \A j \in idx : i <= j

\* C36: for every existing html document load_file returns the document with
\* the snippet put in once and never fails: before the closing head tag when
\* there is one, else in a new head after the html tag, else at the end
C36_SnippetOnce ==
    pstep = "served" =>
        LET doc == pin.doc
            h   == FirstLine(doc, {"</head>"})
            t   == FirstLine(doc, {"<html>", "<html lang>"})
        IN  /\ pout.kind = "data"
            /\ pout.data =
                  IF h # 0 THEN Take(doc, h - 1) \o INJECT(pout.id) \o Drop(doc, h - 1)
                  ELSE IF t # 0
                       THEN Take(doc, t) \o <<"<head>">> \o INJECT(pout.id)
                                \o <<"</head>">> \o Drop(doc, t)
                  ELSE doc \o INJECT(pout.id)

\* C37: for every served root and every html file under it, the path of the
\* update message for a change of the file is the identity path of the page
\* served for it
C37_IdentityConsistent ==
    (pstep = "updated" /\ pout.kind = "data") => pout.upd = pout.id

=============================================================================
